---- MODULE Spec2Model ----
(***************************************************************************)
(* State-machine model of wifi-topology-viewer: the backend server's live  *)
(* scan loop, replay driver and runtime configuration (backend/src/        *)
(* server.js), the headless analyze driver (backend/src/analyze.js) and    *)
(* the replay pacing function.                                             *)
(*                                                                         *)
(* Encodings.  Times are integer milliseconds.  A JavaScript number that   *)
(* is not finite is the value NaN below.  edgeThreshold and the floats of  *)
(* a request body are kept in hundredths, the replay speed in tenths.      *)
(* A JavaScript Map is a sequence in insertion order (apState) or, where   *)
(* only the key set is read, a set of keys (positionState).                *)
(***************************************************************************)
EXTENDS Integers, Sequences, FiniteSets, TLC

\* ------------------------------------------------------------------ bounds
\* Horizon of the wall clock (Date.now()) of the server specification.
MaxClock == 3
\* Horizon of the wall clock of the live-only specification.
MaxLiveClock == 3
\* Largest number of observations of one id in one scan batch.
MaxDup == 3

\* --------------------------------------------------------------- encodings
NaN == -999999
IsFinite(x) == x # NaN


Max2(x, y) == IF x >= y THEN x ELSE y
Min2(x, y) == IF x <= y THEN x ELSE y
clamp(value, lo, hi) == Max2(lo, Min2(hi, value))

\* ------------------------------------------------- scanner output (inputs)
HIDDEN_SSID == "<hidden>"

\* String.prototype.trim on the network names the scanners read.
Trim(s) ==
    CASE s = "Home " -> "Home"
      [] s = " <hidden> " -> "<hidden>"
      [] s = "  " -> ""
      [] OTHER -> s

\* String(ssid || '').trim() || '<hidden>': the name a scanner reports.
normalizeSsid(s) == IF Trim(s) = "" THEN HIDDEN_SSID ELSE Trim(s)

\* One network of a scan result, read with the name s.
Obs(b, s, r, est, src, syn) ==
    [bssid |-> b, ssid |-> normalizeSsid(s), rssi |-> r,
     rssiEstimated |-> est, scanSource |-> src, bssidSynthetic |-> syn]

StrongA == Obs("a", "Home ", -40, FALSE, "airport", FALSE)
WeakA == Obs("a", "", -70, TRUE, "corewlan", FALSE)
MidB == Obs("b", "Cafe", -50, FALSE, "system_profiler", TRUE)
BrokenB == Obs("b", "Cafe", NaN, FALSE, "airport", FALSE)

\* The batches the server specification's scans return: an empty batch (a
\* failed or timed out scan), one network, and two networks.
ScanBatches == { <<>>, <<StrongA>>, <<MidB, WeakA>> }

Repeat(o, k) == [i \in 1..k |-> o]

\* The batches of the live-only specification: up to MaxDup + 1 observations
\* of one network in one batch, and a reading whose signal strength is not
\* a finite number.
WindowBatches ==
    { Repeat(StrongA, MaxDup) \o <<WeakA>>, <<MidB, BrokenB, WeakA, MidB>>,
      <<WeakA>> }

\* ------------------------------------------------------------ entity store
\* Sample weights are kept in hundredths: 0.12, 0.45, 0.35 and 1.
deriveSampleWeight(ap) ==
    IF ap.rssiEstimated THEN 12
    ELSE IF ap.scanSource = "system_profiler" THEN 45
    ELSE IF ap.bssidSynthetic THEN 35
    ELSE 100

\* apState.get(bssid): the index of the record, 0 when there is none.
IndexOf(store, bssid) ==
    IF \E i \in 1..Len(store) : store[i].bssid = bssid
    THEN CHOOSE i \in 1..Len(store) : store[i].bssid = bssid
    ELSE 0

HasRecord(store, bssid) == IndexOf(store, bssid) # 0

StoreIds(store) == { store[i].bssid : i \in 1..Len(store) }

NewRecord(ap, now) ==
    [bssid |-> ap.bssid, ssid |-> ap.ssid, ssidHistory |-> <<ap.ssid>>,
     samples |-> <<>>, sampleWeights |-> <<>>,
     sampleEstimated |-> <<>>, lastSeen |-> now, latestRssi |-> ap.rssi,
     latestWeight |-> deriveSampleWeight(ap)]

isHiddenSsid(value) == Trim(value) = HIDDEN_SSID

\* A policy that takes every name that differs from the stored one.
replaceWhenDifferent(existingSsid, incomingSsid) ==
    existingSsid # incomingSsid

shouldReplaceSsid(existingSsid, incomingSsid) ==
    IF existingSsid = incomingSsid THEN FALSE
    ELSE ~(isHiddenSsid(incomingSsid) /\ ~isHiddenSsid(existingSsid))

SsidHistoryMax == 5

\* The label update of one observation: the stored name and its history
\* of at most SsidHistoryMax names.
UpdateLabel(record, ap) ==
    IF ~shouldReplaceSsid(record.ssid, ap.ssid) THEN record
    ELSE [record EXCEPT
            !.ssid = ap.ssid,
            !.ssidHistory =
               IF \E k \in 1..Len(@) : @[k] = ap.ssid THEN @
               ELSE IF Len(@) + 1 > SsidHistoryMax THEN Tail(Append(@, ap.ssid))
               ELSE Append(@, ap.ssid)]

\* The push of one observation onto the three parallel windows.
PushSample(record, ap, now) ==
    [record EXCEPT !.lastSeen = now,
                   !.latestRssi = ap.rssi,
                   !.latestWeight = deriveSampleWeight(ap),
                   !.samples = Append(@, ap.rssi),
                   !.sampleWeights = Append(@, deriveSampleWeight(ap)),
                   !.sampleEstimated = Append(@, ap.rssiEstimated)]

\* The FIFO bound: one shift of all three windows when samples outgrew it.
ShiftWindow(record, windowSize) ==
    IF Len(record.samples) > windowSize
    THEN [record EXCEPT !.samples = Tail(@),
                        !.sampleWeights = Tail(@),
                        !.sampleEstimated = Tail(@)]
    ELSE record

\* The body of the for-loop over the batch, for one observation.
IngestOne(store, ap, now, windowSize) ==
    IF ~IsFinite(ap.rssi) THEN store
    ELSE LET created == IF HasRecord(store, ap.bssid) THEN store
                        ELSE Append(store, NewRecord(ap, now))
             i == IndexOf(created, ap.bssid)
         IN  [created EXCEPT
                ![i] = ShiftWindow(PushSample(UpdateLabel(created[i], ap),
                                              ap, now),
                                   windowSize)]

RECURSIVE IngestAll(_, _, _, _)
IngestAll(store, results, now, windowSize) ==
    IF results = <<>> THEN store
    ELSE IngestAll(IngestOne(store, Head(results), now, windowSize),
                   Tail(results), now, windowSize)

\* The eviction test of the second loop.
IsStale(record, now, evictAfterMs) == now - record.lastSeen > evictAfterMs

StaleIds(store, now, evictAfterMs) ==
    { store[i].bssid : i \in { j \in 1..Len(store) :
                                 IsStale(store[j], now, evictAfterMs) } }

RECURSIVE DropStale(_, _, _)
DropStale(store, now, evictAfterMs) ==
    IF store = <<>> THEN <<>>
    ELSE IF IsStale(Head(store), now, evictAfterMs)
         THEN DropStale(Tail(store), now, evictAfterMs)
         ELSE <<Head(store)>> \o DropStale(Tail(store), now, evictAfterMs)

\* An eviction pass that forgets the position store.
KeepPositions(positions, evicted) == positions

\* positionState.delete(bssid) for every evicted id.
ReleasePositions(positions, evicted) == positions \ evicted

\* An ingest that ends before its eviction pass.
applyWithoutEviction(store, positions, results, now, config) ==
    [apState |-> IngestAll(store, results, now, config.windowSize),
     positionState |-> positions,
     evicted |-> {}]

\* applyScanResults(results, now) of the server: the new entity store, the
\* new position store and the ids the eviction pass removed.
applyScanResults(store, positions, results, now, config) ==
    LET ingested == IngestAll(store, results, now, config.windowSize)
        evicted == StaleIds(ingested, now, config.evictAfterMs)
    IN  [apState |-> DropStale(ingested, now, config.evictAfterMs),
         positionState |-> ReleasePositions(positions, evicted),
         evicted |-> evicted]

\* trimWindowForAllRecords(windowSize): each window cut to its last entries.
LastN(s, n) == IF Len(s) > n THEN SubSeq(s, Len(s) - n + 1, Len(s)) ELSE s

TrimRecord(record, windowSize) ==
    [record EXCEPT !.samples = LastN(@, windowSize),
                   !.sampleWeights = LastN(@, windowSize),
                   !.sampleEstimated = LastN(@, windowSize)]

\* A trim that keeps the oldest entries of each window.
FirstN(s, n) == IF Len(s) > n THEN SubSeq(s, 1, n) ELSE s

trimKeepsOldest(store, windowSize) ==
    [i \in 1..Len(store) |->
       [store[i] EXCEPT !.samples = FirstN(@, windowSize),
                        !.sampleWeights = FirstN(@, windowSize),
                        !.sampleEstimated = FirstN(@, windowSize)]]

\* A trim that cuts the samples and leaves the parallel windows alone.
trimSamplesOnly(store, windowSize) ==
    [i \in 1..Len(store) |->
       [store[i] EXCEPT !.samples = LastN(@, windowSize)]]

trimWindowForAllRecords(store, windowSize) ==
    [i \in 1..Len(store) |-> TrimRecord(store[i], windowSize)]

\* ---------------------------------------------------------------- snapshot
\* Array.prototype.sort is stable: records of equal latestRssi keep the
\* store's insertion order.
RECURSIVE InsertByRssi(_, _)
InsertByRssi(record, sorted) ==
    IF sorted = <<>> THEN <<record>>
    ELSE IF Head(sorted).latestRssi <= record.latestRssi
         THEN <<record>> \o sorted
         ELSE <<Head(sorted)>> \o InsertByRssi(record, Tail(sorted))

RECURSIVE SortByRssiDesc(_)
SortByRssiDesc(records) ==
    IF records = <<>> THEN <<>>
    ELSE InsertByRssi(Head(records), SortByRssiDesc(Tail(records)))

Slice(s, n) == IF Len(s) > n THEN SubSeq(s, 1, n) ELSE s

\* A pick of the first records of the store, in its own order.
firstRecords(store, now, config) ==
    Slice(DropStale(store, now, config.evictAfterMs), config.maxAps)

\* The filter, sort and slice that pick a snapshot's records.
ActiveRecords(store, now, config) ==
    Slice(SortByRssiDesc(DropStale(store, now, config.evictAfterMs)),
          config.maxAps)

ApView(record) ==
    [bssid |-> record.bssid, ssid |-> record.ssid,
     rssi |-> record.latestRssi,
     sampleCount |-> Len(record.samples), lastSeen |-> record.lastSeen]

\* positionState after buildSnapshot: cleared, then refilled with the keys
\* embedPositions returned, which are the ids of the active records.
NextPositionIds(active) == { active[i].bssid : i \in 1..Len(active) }

\* buildSnapshot(now, mode): the packet and the new position store.
buildSnapshot(store, now, mode, config, replayActive) ==
    LET active == ActiveRecords(store, now, config)
    IN  [snapshot |->
           [type |-> "snapshot",
            t |-> now,
            aps |-> [i \in 1..Len(active) |-> ApView(active[i])],
            positions |-> NextPositionIds(active),
            meta |-> [mode |-> mode,
                      scanIntervalMs |-> config.scanIntervalMs,
                      windowSize |-> config.windowSize,
                      edgeThreshold |-> config.edgeThreshold,
                      minOverlap |-> config.minOverlap,
                      maxAps |-> config.maxAps,
                      activeApCount |-> Len(active),
                      replay |-> replayActive]],
         positionState |-> NextPositionIds(active)]

\* ------------------------------------------------------ request body values
\* A JSON value of a request body as parseInt and parseFloat read it: a
\* missing field, a value with no numeric prefix (null, "abc", {}), or a
\* number h/100, alone or as the prefix of a longer string ("300ms").
Absent == [kind |-> "absent", h |-> 0, junk |-> FALSE]
NotNumeric == [kind |-> "nan", h |-> 0, junk |-> TRUE]
Num(h) == [kind |-> "num", h |-> h, junk |-> FALSE]
NumPrefix(h) == [kind |-> "num", h |-> h, junk |-> TRUE]

\* Number.parseInt(value, 10): the integer part of the numeric prefix.
parseInt(value) ==
    IF value.kind # "num" THEN NaN
    ELSE IF value.h >= 0 THEN value.h \div 100 ELSE -((-value.h) \div 100)

\* Number.parseFloat(value), in hundredths.
parseFloat(value) == IF value.kind # "num" THEN NaN ELSE value.h

\* parseBoundedInt(value, min, max, label): ok = FALSE when it throws.
parseBoundedInt(value, min, max) ==
    LET parsed == parseInt(value)
    IN  IF ~IsFinite(parsed) THEN [ok |-> FALSE, value |-> 0]
        ELSE IF parsed < min \/ parsed > max THEN [ok |-> FALSE, value |-> 0]
        ELSE [ok |-> TRUE, value |-> parsed]

\* parseBoundedFloat(value, fallback, min, max, label) with a label other
\* than 'value'; min and max in hundredths.
parseBoundedFloat(value, min, max) ==
    LET parsed == parseFloat(value)
    IN  IF ~IsFinite(parsed) THEN [ok |-> FALSE, value |-> 0]
        ELSE IF parsed < min \/ parsed > max THEN [ok |-> FALSE, value |-> 0]
        ELSE [ok |-> TRUE, value |-> parsed]

ScanIntervalMin == 300
ScanIntervalMax == 10000
WindowSizeMin == 8
WindowSizeMax == 240
EdgeThresholdMin == 5
EdgeThresholdMax == 98
MinOverlapMin == 4
MinOverlapMax == 80

Body(si, ws, et, mo) ==
    [scanIntervalMs |-> si, windowSize |-> ws, edgeThreshold |-> et,
     minOverlap |-> mo]

EmptyBody == Body(Absent, Absent, Absent, Absent)

\* The request bodies PUT /config is driven with in the server
\* specification: a valid one, and one with valid fields and an
\* out-of-bounds edgeThreshold.
PutBodies ==
    { Body(Num(30000), Num(800), Num(50), Num(400)),
      Body(Num(50000), Num(900), Num(150), Absent) }

\* The request bodies of the live-only specification: two window sizes, a
\* body with a field that is not a number, the number 240.5 as windowSize
\* and the string "300ms" as scanIntervalMs.
WindowBodies ==
    { Body(Absent, Num(800), Absent, Absent),
      Body(Absent, Num(1000), Absent, Absent),
      Body(Num(30000), Num(800), Num(50), NotNumeric),
      Body(Absent, Num(24050), Absent, Absent),
      Body(NumPrefix(30000), Absent, Absent, Absent) }

\* The updates object of app.put('/config'): ok = FALSE when a parse threw.
ParseUpdates(body) ==
    LET si == parseBoundedInt(body.scanIntervalMs, ScanIntervalMin, ScanIntervalMax)
        ws == parseBoundedInt(body.windowSize, WindowSizeMin, WindowSizeMax)
        et == parseBoundedFloat(body.edgeThreshold, EdgeThresholdMin, EdgeThresholdMax)
        mo == parseBoundedInt(body.minOverlap, MinOverlapMin, MinOverlapMax)
        has(f) == body[f].kind # "absent"
    IN  [ok |-> /\ (has("scanIntervalMs") => si.ok)
                /\ (has("windowSize") => ws.ok)
                /\ (has("edgeThreshold") => et.ok)
                /\ (has("minOverlap") => mo.ok),
         hasScanIntervalMs |-> has("scanIntervalMs"), scanIntervalMs |-> si.value,
         hasWindowSize |-> has("windowSize"), windowSize |-> ws.value,
         hasEdgeThreshold |-> has("edgeThreshold"), edgeThreshold |-> et.value,
         hasMinOverlap |-> has("minOverlap"), minOverlap |-> mo.value]

\* Object.assign(runtimeConfig, updates).
AssignUpdates(config, updates) ==
    [config EXCEPT
       !.scanIntervalMs = IF updates.hasScanIntervalMs THEN updates.scanIntervalMs ELSE @,
       !.windowSize = IF updates.hasWindowSize THEN updates.windowSize ELSE @,
       !.edgeThreshold = IF updates.hasEdgeThreshold THEN updates.edgeThreshold ELSE @,
       !.minOverlap = IF updates.hasMinOverlap THEN updates.minOverlap ELSE @]

\* ------------------------------------------------------------ replay files
RecordedMeta ==
    [mode |-> "live", scanIntervalMs |-> 1000, windowSize |-> 30,
     edgeThreshold |-> 60, minOverlap |-> 8, maxAps |-> 40,
     activeApCount |-> 1, replay |-> FALSE]

\* One recorded line of type 'snapshot' with timestamp t.
Recorded(t, id) ==
    [type |-> "snapshot", t |-> t,
     aps |-> <<[bssid |-> id, rssi |-> -55, sampleCount |-> 3, lastSeen |-> t]>>,
     positions |-> {id}, edges |-> {<<id, id>>}, meta |-> RecordedMeta]

\* A line JSON.parse rejects, and a parseable line of another type.
CorruptLine == [type |-> "corrupt"]
OtherLine == [type |-> "config"]

ReplayPaths == {"two.ndjson", "none.ndjson"}

\* readFile(replayPath) followed by the split into lines.
FileLines(path) ==
    IF path = "two.ndjson"
    THEN <<Recorded(1000, "a"), CorruptLine, Recorded(1500, "b"), OtherLine>>
    ELSE <<CorruptLine, OtherLine>>

\* A load that keeps every line of the file.
KeepAllLines(lines) == lines

\* The parse-and-filter of startReplay: the lines of type 'snapshot', in order.
RECURSIVE ParseSnapshots(_)
ParseSnapshots(lines) ==
    IF lines = <<>> THEN <<>>
    ELSE IF Head(lines).type = "snapshot"
         THEN <<Head(lines)>> \o ParseSnapshots(Tail(lines))
         ELSE ParseSnapshots(Tail(lines))

\* Replay speeds, in tenths (the route bounds them to [0.2, 8]).
ReplaySpeeds == {20}

\* Math.round of the quotient p / q of two positive integers.
RoundDiv(p, q) == (2 * p + q) \div (2 * q)

ReplayDelayMin == 40
ReplayDelayMax == 15000

\* computeReplayDelayMs(current, next, speed, fallbackMs); speed in tenths,
\* hasNext = FALSE when next is undefined.
computeReplayDelayMs(currentT, hasNext, nextT, speed, fallbackMs) ==
    IF ~hasNext THEN fallbackMs
    ELSE LET raw == IF IsFinite(nextT) /\ IsFinite(currentT)
                    THEN nextT - currentT ELSE NaN
             base == IF IsFinite(raw) /\ raw > 40 THEN raw ELSE fallbackMs
         IN  clamp(RoundDiv(base * 10, Max2(speed, 1)), ReplayDelayMin, ReplayDelayMax)

\* The delay scheduleReplayTick hands to setTimeout.
ReplayTimerFloor == 20
ReplayTimerDelay(delayMs) == Max2(ReplayTimerFloor, delayMs)

\* ------------------------------------------------------------------- state
VARIABLES
    clock,          \* Date.now()
    runtimeConfig,  \* the runtimeConfig object
    appState,       \* tickCount, scanInFlight, mode, lastSnapshot
    replayState,    \* active, path, snapshots, index, total, speed, loop, timer
    apState,        \* the entity store, in insertion order
    positionState,  \* the keys of the position store
    scanTimer,      \* the pending setTimeout of scheduleNextScan
    shuttingDown,   \* the shuttingDown flag
    tick,           \* the scanTick call suspended in scanWifiNetworks
    httpStatus,     \* the status of the last HTTP response sent (0: none)
    lastIngest,     \* history: what the last applyScanResults call did
    lastTrim,       \* history: what the last trimWindowForAllRecords call did
    recordState,    \* the recordState object
    recordLog,      \* history: starts under way, start and stop events, writes
    analyze,        \* the analyze command: runAnalyzeSession and its caller
    pacing,         \* one call of computeReplayDelayMs: arguments and result
    calc,           \* one call of a topology function: arguments and result
    client          \* the closure of one connectSnapshotStream call

serverVars ==
    <<clock, runtimeConfig, appState, replayState, apState,
      positionState, scanTimer, shuttingDown, tick, httpStatus, lastIngest,
      lastTrim, recordState, recordLog>>

\* Values of the environment variables the server is started with
\* (WINDOW_SIZE, EVICT_AFTER_MS, MAX_APS, SNAPSHOT_EVERY_TICKS).
EnvWindowSize == 2
EnvEvictAfterMs == 1
EnvMaxAps == 1
\* SNAPSHOT_EVERY_TICKS is 1 (the default) or MaxSnapshotEveryTicks.
MaxSnapshotEveryTicks == 2

DefaultScanIntervalMs == 1000
DefaultMinOverlap == 8
DefaultEdgeThreshold == 60

InitialConfig ==
    [scanIntervalMs |-> DefaultScanIntervalMs,
     windowSize |-> EnvWindowSize,
     evictAfterMs |-> EnvEvictAfterMs,
     maxAps |-> EnvMaxAps,
     snapshotEveryTicks |-> 1,
     minOverlap |-> DefaultMinOverlap,
     edgeThreshold |-> DefaultEdgeThreshold]

Null == [type |-> "null"]

\* A setTimeout handle: "off" (never set, cleared or run), "set", and "due"
\* once time has passed since it was set: every delay is at least 20 ms, so
\* a callback never runs at the clock value its timer was set at.
NoTimer == "off"
TimerSet == "set"
Elapse(timer) == IF timer = "set" THEN "due" ELSE timer
Due(timer) == timer = "due"

IdleReplay ==
    [active |-> FALSE, path |-> "", snapshots |-> <<>>, index |-> 0,
     total |-> 0, speed |-> 10, loop |-> FALSE, timer |-> NoTimer]

NoTick == [pending |-> FALSE, now |-> 0, config |-> InitialConfig]
\* count: the applyScanResults calls so far, up to 1; now: the timestamp of
\* the last one; evicted: the ids its eviction pass removed; released:
\* those of them that had a position entry.
NoIngest == [count |-> 0, now |-> 0, evicted |-> {}, released |-> {}]
\* count: the trimWindowForAllRecords calls so far, up to 1; windowSize: the
\* argument of the last one; cut: the ids whose windows were longer.
NoTrim == [count |-> 0, windowSize |-> 0, cut |-> {}]

\* The server process runs no analyze command and, in these
\* specifications, the replay timer's delay is not observed.
NoAnalyze == [pc |-> "off"]
NoPacing == [pc |-> "off"]
\* No call of a function of the topology pipeline is observed.
NoCalc == [fn |-> "none"]
NoClient == [pc |-> "off"]

\* The state when server.listen has called scheduleNextScan(0), the server
\* started with WINDOW_SIZE = windowSize.
\* --------------------------------------------------------------- recording
\* recordState as the module leaves it: path null is "", and stream is
\* "null", "writable" (an open write stream) or "destroyed" (a stream whose
\* writable property is false).
IdleRecording ==
    [enabled |-> FALSE, path |-> "", stream |-> "null", count |-> 0,
     startedAt |-> 0]

\* What is remembered about recording: how many startRecording calls await
\* their directory and their stream, whether a start has completed
\* ("started"), has completed and was followed by a POST /record/stop, a
\* stream error or a shutdown ("stopped"), or has never completed ("never"),
\* and the recording state and the time of the last appended line.
MaxOpening == 2
MaxRecordCount == 2
NoWrite == [enabled |-> FALSE, phase |-> "none", t |-> 0]
\* The history of the recording: the starts that await their stream, the
\* streams that were opened, are no longer recordState.stream and were never
\* ended, the last of start and stop, the lines written since the last
\* assignment of startedAt by a start, and the last write.
NoRecordLog ==
    [opening |-> 0, unended |-> 0, phase |-> "never", appended |-> 0,
     lastWrite |-> NoWrite]

\* A test that looks at the caller's permission only.
appendsAlways(state, allowRecord) == allowRecord

\* A test that writes whatever the caller allows.
appendsWhenEnabled(state, allowRecord) ==
    state.enabled /\ state.stream = "writable"

\* The test of broadcastSnapshot that guards the write to the stream.
AppendsLine(state, allowRecord) ==
    allowRecord /\ state.enabled /\ state.stream = "writable"

\* The last statements of broadcastSnapshot, reached when a snapshot is
\* broadcast: the line is appended and counted.
Record(sent, allowRecord, now) ==
    IF sent /\ AppendsLine(recordState, allowRecord)
      THEN /\ recordState.count < MaxRecordCount
           /\ recordState' = [recordState EXCEPT !.count = @ + 1]
           /\ recordLog' = [recordLog EXCEPT
                              !.appended = @ + 1,
                              !.lastWrite = [enabled |-> recordState.enabled,
                                             phase |-> recordLog.phase,
                                             t |-> now]]
      ELSE UNCHANGED <<recordState, recordLog>>

\* stopRecording(), up to its await: the state is reset before the stream
\* is ended.
stopRecording(state) ==
    IF ~state.enabled /\ state.stream = "null" THEN state ELSE IdleRecording

Stopped(log) ==
    [log EXCEPT !.phase = IF @ = "never" THEN "never" ELSE "stopped"]

InitWith(windowSize) ==
    /\ clock = 0
    /\ \E every \in {1, MaxSnapshotEveryTicks} :
         runtimeConfig = [InitialConfig EXCEPT !.windowSize = windowSize,
                                               !.snapshotEveryTicks = every]
    /\ appState = [tickCount |-> 0, scanInFlight |-> FALSE, mode |-> "live",
                   lastSnapshot |-> Null]
    /\ replayState = IdleReplay
    /\ apState = <<>>
    /\ positionState = {}
    /\ scanTimer = TimerSet
    /\ shuttingDown = FALSE
    /\ tick = NoTick
    /\ httpStatus = 0
    /\ lastIngest = NoIngest
    /\ lastTrim = NoTrim
    /\ recordState = IdleRecording
    /\ recordLog = NoRecordLog
    /\ analyze = NoAnalyze
    /\ pacing = NoPacing
    /\ calc = NoCalc
    /\ client = NoClient

\* Time passes, up to the horizon.
Advance(horizon) ==
    /\ clock < horizon
    /\ clock' = clock + 1
    /\ scanTimer' = Elapse(scanTimer)
    /\ replayState' = [replayState EXCEPT !.timer = Elapse(@)]
    /\ UNCHANGED <<runtimeConfig, appState, apState, positionState,
                   shuttingDown, tick, httpStatus, lastIngest,
                   lastTrim>>
    /\ UNCHANGED <<analyze, pacing, calc, client, recordState, recordLog>>

\* scheduleNextScan(delayMs): the timer it leaves behind.
scheduleNextScan(timer) == IF shuttingDown THEN timer ELSE TimerSet

\* A guard that does not look at scanInFlight.
ScanTickSkipsUnlessInFlight ==
    \/ appState.mode # "live"
    \/ replayState.active
    \/ shuttingDown

\* The guard at the top of scanTick.
ScanTickSkips ==
    \/ appState.mode # "live"
    \/ replayState.active
    \/ appState.scanInFlight
    \/ shuttingDown

\* The scan timer fires: scanTick runs up to its await, or returns at once
\* and the timer callback reschedules.
ScanTimerFire ==
    /\ Due(scanTimer)
    /\ IF ScanTickSkips
       THEN /\ scanTimer' = scheduleNextScan(NoTimer)
            /\ UNCHANGED <<appState, tick>>
       ELSE /\ appState' = [appState EXCEPT !.scanInFlight = TRUE]
            /\ tick' = [pending |-> TRUE, now |-> clock, config |-> runtimeConfig]
            /\ scanTimer' = NoTimer
    /\ UNCHANGED <<clock, runtimeConfig, replayState, apState,
                   positionState, shuttingDown, httpStatus, lastIngest,
                   lastTrim>>
    /\ UNCHANGED <<analyze, pacing, calc, client, recordState, recordLog>>

\* A tick that builds a snapshot every time.
AlwaysDue(n, config) == TRUE

\* Whether the tick that just raised tickCount to n builds a snapshot.
SnapshotDue(n, config) == n % config.snapshotEveryTicks = 0

\* appState.tickCount as the model keeps it.  The code reads the counter
\* in one place, modulo snapshotEveryTicks, which no request changes; the
\* specifications in which ticks go on for ever keep it modulo that number.
StoredCount(n, config, wraps) ==
    IF wraps THEN n % config.snapshotEveryTicks ELSE n

\* scanWifiNetworks resolves with a batch: the rest of scanTick, then the
\* timer callback's scheduleNextScan.
ScanCompleteCounting(batches, wraps) ==
    /\ tick.pending
    /\ \E results \in batches :
         LET applied == applyScanResults(apState, positionState, results,
                                         tick.now, runtimeConfig)
             count == appState.tickCount + 1
             due == SnapshotDue(count, runtimeConfig)
             built == buildSnapshot(applied.apState, tick.now, "live",
                                    runtimeConfig, replayState.active)
         IN  /\ apState' = applied.apState
             /\ positionState' = IF due THEN built.positionState
                                 ELSE applied.positionState
             /\ lastIngest' = [count |-> 1, now |-> tick.now,
                                evicted |-> applied.evicted,
                                released |-> applied.evicted \cap positionState]
             /\ appState' = [appState EXCEPT
                               !.tickCount = StoredCount(count, runtimeConfig,
                                                         wraps),
                               !.scanInFlight = FALSE,
                               !.lastSnapshot = IF due THEN built.snapshot ELSE @]
    /\ Record(SnapshotDue(appState.tickCount + 1, runtimeConfig), TRUE,
              tick.now)
    /\ tick' = NoTick
    /\ scanTimer' = scheduleNextScan(scanTimer)
    /\ UNCHANGED <<clock, runtimeConfig, replayState, shuttingDown,
                   httpStatus, lastTrim>>
    /\ UNCHANGED <<analyze, pacing, calc, client>>

ScanComplete(batches) == ScanCompleteCounting(batches, FALSE)

\* The ids of the records that hold more than windowSize samples.
LongerThan(store, windowSize) ==
    { store[i].bssid : i \in { j \in 1..Len(store) :
                                 Len(store[j].samples) > windowSize } }

\* PUT /config: every supplied field is parsed before anything is assigned;
\* a parse that throws ends the request with status 400.
PutConfigBody(body) ==
    /\ LET updates == ParseUpdates(body)
       IN  IF ~updates.ok
             THEN /\ httpStatus' = 400
                  /\ UNCHANGED <<runtimeConfig, apState, scanTimer, lastTrim>>
             ELSE /\ runtimeConfig' = AssignUpdates(runtimeConfig, updates)
                  /\ apState' = IF updates.hasWindowSize
                                THEN trimWindowForAllRecords(apState, updates.windowSize)
                                ELSE apState
                  /\ lastTrim' = IF updates.hasWindowSize
                                 THEN [count |-> 1,
                                       windowSize |-> updates.windowSize,
                                       cut |-> LongerThan(apState,
                                                          updates.windowSize)]
                                 ELSE lastTrim
                  /\ scanTimer' = IF /\ updates.hasScanIntervalMs
                                     /\ updates.scanIntervalMs # runtimeConfig.scanIntervalMs
                                  THEN scheduleNextScan(scanTimer)
                                  ELSE scanTimer
                  /\ httpStatus' = 200
    /\ UNCHANGED <<clock, appState, replayState, positionState,
                   shuttingDown, tick, lastIngest>>
    /\ UNCHANGED <<analyze, pacing, calc, client, recordState, recordLog>>

PutConfig(bodies) == \E body \in bodies : PutConfigBody(body)

\* stopReplay(): the replay state it leaves behind (the mode is set by the
\* caller's action).
stopReplay == IdleReplay

\* POST /replay/start.  The call reads no state before its await of
\* readFile, so the request is one step, taken when readFile resolves: the
\* parse, and on success stopReplay and the start of the new replay.
ReplayStartWith(path, speed, loop) ==
    /\ LET snapshots == ParseSnapshots(FileLines(path))
       IN  IF Len(snapshots) = 0
           THEN /\ httpStatus' = 500
                /\ UNCHANGED <<replayState, appState>>
           ELSE /\ replayState' =
                     [active |-> TRUE, path |-> path,
                      snapshots |-> snapshots, index |-> 0,
                      total |-> Len(snapshots), speed |-> speed,
                      loop |-> loop, timer |-> TimerSet]
                /\ appState' = [appState EXCEPT !.mode = "replay"]
                /\ httpStatus' = 200
    /\ UNCHANGED <<clock, runtimeConfig, apState, positionState, scanTimer,
                   shuttingDown, tick, lastIngest,
                   lastTrim>>
    /\ UNCHANGED <<analyze, pacing, calc, client, recordState, recordLog>>

ReplayStart ==
    \E path \in ReplayPaths, speed \in ReplaySpeeds, loop \in BOOLEAN :
      ReplayStartWith(path, speed, loop)

\* A stop that leaves the mode as it was.
replayStopKeepsMode ==
    /\ replayState' = stopReplay
    /\ httpStatus' = 200
    /\ UNCHANGED <<clock, runtimeConfig, appState, apState, positionState,
                   scanTimer, shuttingDown, tick, lastIngest, lastTrim>>
    /\ UNCHANGED <<analyze, pacing, calc, client, recordState, recordLog>>

\* POST /replay/stop.
ReplayStop ==
    /\ replayState' = stopReplay
    /\ appState' = [appState EXCEPT !.mode = "live"]
    /\ httpStatus' = 200
    /\ UNCHANGED <<clock, runtimeConfig, apState, positionState,
                   scanTimer, shuttingDown, tick,
                   lastIngest,
                   lastTrim>>
    /\ UNCHANGED <<analyze, pacing, calc, client, recordState, recordLog>>

\* An emission that sends the recorded entry as it was stored.
RecordedAsIs(current, now, state) == current

\* The snapshot emitReplayTick builds from the recorded entry: the object
\* spread { ...current, type, t, meta: { ...current.meta, mode, ... } }, in
\* which the fields written after a spread replace the spread's.
ReplaySnapshot(current, now, state) ==
    [type |-> "snapshot", t |-> now,
     meta |-> [mode |-> "replay", replay |-> TRUE,
               replayPath |-> state.path, replayIndex |-> state.index,
               replayTotal |-> state.total, replaySpeed |-> state.speed]
              @@ current.meta]
    @@ current

\* An emission that always takes the first entry.
EmitFirst(state) == 0

\* The position in replayState.snapshots of the entry emitReplayTick emits:
\* replayState.index, reset to 0 at the end of a looping replay.
EmitIndex(state) == IF state.index >= state.total THEN 0 ELSE state.index

\* A replay that stops at the end of the sequence, loop or not.
ReplayEndsAtLast(state) == state.index >= state.total

\* The end-of-sequence test of emitReplayTick that leads to stopReplay.
ReplayEnds(state) == state.index >= state.total /\ ~state.loop

\* The replay timer fires: emitReplayTick.
ReplayTimerFire ==
    /\ Due(replayState.timer)
    /\ IF ~replayState.active \/ shuttingDown
       THEN /\ replayState' = [replayState EXCEPT !.timer = NoTimer]
            /\ UNCHANGED appState
       ELSE IF ReplayEnds(replayState)
       THEN /\ replayState' = stopReplay
            /\ appState' = [appState EXCEPT !.mode = "live"]
       ELSE LET index == EmitIndex(replayState)
                current == replayState.snapshots[index + 1]
                stepped == [replayState EXCEPT !.index = index + 1,
                                               !.timer = TimerSet]
            IN  /\ replayState' = stepped
                /\ appState' = [appState EXCEPT
                                  !.lastSnapshot =
                                     ReplaySnapshot(current, clock, stepped)]
    /\ UNCHANGED <<clock, runtimeConfig, apState, positionState,
                   scanTimer, shuttingDown, tick,
                   httpStatus, lastIngest,
                   lastTrim>>
    /\ Record(replayState.active /\ ~shuttingDown /\ ~ReplayEnds(replayState),
              FALSE, clock)
    /\ UNCHANGED <<analyze, pacing, calc, client>>

\* SIGINT or SIGTERM: shutdown().  Its process.exit(0), reached once
\* server.close has called back, changes no variable: a process that has
\* exited is one that takes no further step.
Shutdown ==
    /\ ~shuttingDown
    /\ shuttingDown' = TRUE
    /\ scanTimer' = NoTimer
    /\ replayState' = stopReplay
    /\ appState' = [appState EXCEPT !.mode = "live"]
    /\ recordState' = stopRecording(recordState)
    /\ recordLog' = Stopped(recordLog)
    /\ UNCHANGED <<clock, runtimeConfig, apState, positionState,
                   tick,
                   httpStatus, lastIngest,
                   lastTrim>>
    /\ UNCHANGED <<analyze, pacing, calc, client>>

\* Everything but the recording state, the response status and the clock.
RecordingAside ==
    /\ UNCHANGED <<clock, runtimeConfig, appState, replayState, apState,
                   positionState, scanTimer, shuttingDown, tick, lastIngest,
                   lastTrim>>
    /\ UNCHANGED <<analyze, pacing, calc, client>>

\* POST /record/start: startRecording answers at once while recording is
\* enabled, and otherwise awaits the directory and the stream.
RecordStart ==
    /\ IF recordState.enabled
         THEN /\ httpStatus' = 200
              /\ UNCHANGED recordLog
         ELSE /\ recordLog.opening + recordLog.unended < MaxOpening
              /\ recordLog' = [recordLog EXCEPT !.opening = @ + 1]
              /\ UNCHANGED httpStatus
    /\ UNCHANGED recordState
    /\ RecordingAside

\* The stream of a startRecording call opens: the error handler is
\* installed, recordState is assigned and the request is answered.
RecordOpens ==
    /\ recordLog.opening > 0
    /\ recordState' = [enabled |-> TRUE, path |-> "/run.ndjson",
                       stream |-> "writable", count |-> 0,
                       startedAt |-> clock]
    /\ recordLog' = [recordLog EXCEPT
                       !.opening = @ - 1,
                       !.unended = IF recordState.stream = "null"
                                     THEN @ ELSE @ + 1,
                       !.phase = "started",
                       !.appended = 0]
    /\ httpStatus' = 200
    /\ RecordingAside

\* mkdir rejects or the stream reports an error before it opens:
\* startRecording throws and the route hands the error on.
RecordOpenFails ==
    /\ recordLog.opening > 0
    /\ recordLog' = [recordLog EXCEPT !.opening = @ - 1]
    /\ httpStatus' = 500
    /\ UNCHANGED recordState
    /\ RecordingAside

\* POST /record/stop.
RecordStop ==
    /\ recordState' = stopRecording(recordState)
    /\ recordLog' = Stopped(recordLog)
    /\ httpStatus' = 200
    /\ RecordingAside

\* The stream in use fails and is destroyed; its 'error' event follows.
StreamBreaks ==
    /\ recordState.stream = "writable"
    /\ recordState' = [recordState EXCEPT !.stream = "destroyed"]
    /\ UNCHANGED <<recordLog, httpStatus>>
    /\ RecordingAside

\* The 'error' handler of a stream that a start has opened, the one in use
\* or one that a later start has replaced: void stopRecording().
StreamError ==
    /\ recordLog.phase # "never"
    /\ recordState' = stopRecording(recordState)
    /\ recordLog' = Stopped(recordLog)
    /\ UNCHANGED httpStatus
    /\ RecordingAside

Init == InitWith(EnvWindowSize)

Next ==
    \/ Advance(MaxClock)
    \/ ScanTimerFire
    \/ ScanComplete(ScanBatches)
    \/ PutConfig(PutBodies)
    \/ ReplayStart
    \/ ReplayStop
    \/ ReplayTimerFire
    \/ Shutdown

vars == <<serverVars, analyze, pacing, calc, client>>

Spec == Init /\ [][Next]_vars

\* The live loop alone, no replay and no shutdown, over a longer horizon and
\* with windows that fill: the server started with WINDOW_SIZE = 9.
LiveWindowSize == 9

InitLive == InitWith(LiveWindowSize)

NextLive ==
    \/ Advance(MaxLiveClock)
    \/ ScanTimerFire
    \/ ScanComplete(WindowBatches)
    \/ PutConfig(WindowBodies)

SpecLive == InitLive /\ [][NextLive]_vars

\* ------------------------------------------------------ recording, served
\* The live loop and a replay next to the recording requests, the failures
\* of the stream and the shutdown.
MaxRecordClock == 2

NextRecord ==
    \/ Advance(MaxRecordClock)
    \/ ScanTimerFire
    \/ ScanComplete({ <<StrongA>> })
    \/ ReplayStartWith("two.ndjson", 20, FALSE)
    \/ ReplayTimerFire
    \/ RecordStart
    \/ RecordOpens
    \/ RecordOpenFails
    \/ RecordStop
    \/ StreamBreaks
    \/ StreamError
    \/ Shutdown

SpecRecord == Init /\ [][NextRecord]_vars

\* ---------------------------------------------------------------- labels
\* The live loop alone, scanning one network whose name is read as "Home",
\* as "Guest" or not at all, next to a second network.
HomeA == Obs("a", "Home ", -41, FALSE, "airport", FALSE)
GuestA == Obs("a", "Guest", -42, FALSE, "airport", FALSE)
HiddenA == Obs("a", "  ", -43, FALSE, "airport", FALSE)
SentinelA == Obs("a", " <hidden> ", -44, FALSE, "corewlan", FALSE)

LabelBatches ==
    { <<HiddenA>>, <<HomeA>>, <<GuestA, SentinelA>>, <<HiddenA, HomeA, MidB>>,
      <<HomeA, GuestA, HiddenA>>, <<MidB>> }

NextLabels ==
    \/ Advance(MaxLiveClock)
    \/ ScanTimerFire
    \/ ScanComplete(LabelBatches)

SpecLabels == InitWith(EnvWindowSize) /\ [][NextLabels]_vars

\* -------------------------------------------------------------- scanners
\* How one scanner command ends: with an error (a timeout, a failed or
\* missing command) or not, and the networks its output held until then.
Exit(error, networks) == [error |-> error, networks |-> networks]

AnonC == Obs("c", "", -60, FALSE, "corewlan", TRUE)

AirportExits ==
    { Exit(TRUE, <<StrongA>>), Exit(FALSE, <<>>), Exit(FALSE, <<StrongA>>) }
CoreWlanExits ==
    { Exit(TRUE, <<SentinelA>>), Exit(FALSE, <<AnonC>>),
      Exit(FALSE, <<SentinelA>>) }
ProfilerExits ==
    { Exit(TRUE, <<MidB>>), Exit(FALSE, <<>>), Exit(FALSE, <<MidB>>) }

\* A scanner that parses whatever its command printed, error or not.
outputDespiteError(exit) == exit.networks

\* tryAirportScan, tryCoreWlanScan, trySystemProfilerScan: the parsed
\* output, or [] when the command threw.
tryScan(exit) == IF exit.error THEN <<>> ELSE exit.networks

MinCoreWlanIdentifiedAps == 3
\* 0.18, in hundredths.
MinCoreWlanIdentifiedRatio == 18

isCoreWlanScanUsable(networks) ==
    IF Len(networks) = 0 THEN FALSE
    ELSE LET identified ==
                 Cardinality({ k \in 1..Len(networks) :
                                 \/ ~networks[k].bssidSynthetic
                                 \/ networks[k].ssid # HIDDEN_SSID })
         IN  \/ identified >= MinCoreWlanIdentifiedAps
             \/ identified * 100
                  >= MinCoreWlanIdentifiedRatio * Len(networks)

scanWifiNetworks(airport, coreWlan, profiler, enableSystemProfilerFallback) ==
    LET airportNetworks == tryScan(airport)
        coreWlanNetworks == tryScan(coreWlan)
        profilerNetworks == tryScan(profiler)
    IN  IF Len(airportNetworks) > 0 THEN airportNetworks
        ELSE IF /\ Len(coreWlanNetworks) > 0
                /\ \/ ~enableSystemProfilerFallback
                   \/ isCoreWlanScanUsable(coreWlanNetworks)
             THEN coreWlanNetworks
        ELSE IF enableSystemProfilerFallback /\ Len(profilerNetworks) > 0
             THEN profilerNetworks
        ELSE IF Len(coreWlanNetworks) > 0 THEN coreWlanNetworks
        ELSE <<>>

\* What the scan of a live tick resolves with.
ScannerBatches ==
    { scanWifiNetworks(airport, coreWlan, profiler, TRUE) :
        airport \in AirportExits, coreWlan \in CoreWlanExits,
        profiler \in ProfilerExits }

NextScanners ==
    \/ Advance(MaxLiveClock)
    \/ ScanTimerFire
    \/ ScanComplete(ScannerBatches)

SpecScanners == InitWith(EnvWindowSize) /\ [][NextScanners]_vars

\* ----------------------------------------------------------------- faults
\* The live loop for ever, with ticks that throw.  Date.now() is told apart
\* up to the horizon only: later times all read as the horizon.
MaxFaultClock == 2

\* Time passes; a timer that was set becomes due.
TimePasses(horizon) ==
    /\ clock' = IF clock < horizon THEN clock + 1 ELSE clock
    /\ scanTimer' = Elapse(scanTimer)
    /\ replayState' = [replayState EXCEPT !.timer = Elapse(@)]
    /\ UNCHANGED <<runtimeConfig, appState, apState, positionState,
                   shuttingDown, tick, httpStatus, lastIngest, lastTrim>>
    /\ UNCHANGED <<analyze, pacing, calc, client, recordState, recordLog>>

\* A tick that leaves scanInFlight as its try block left it.
leaveInFlight(state) == state

\* The finally block of scanTick.
scanTickFinally(state) == [state EXCEPT !.scanInFlight = FALSE]

\* The statements of scanTick's try block that can throw.
FaultStages == { "scan", "ingest", "build", "broadcast" }

\* The suspended scanTick resumes and throws: in the await of the scan, in
\* applyScanResults at an observation of the batch, in buildSnapshot before
\* it touches the position store, or in broadcastSnapshot.  What ran before
\* the throw stays; the catch logs, the finally block runs and the timer
\* callback schedules the next tick.
ScanFails(batches) ==
    /\ tick.pending
    /\ \E stage \in FaultStages, results \in batches :
         LET applied == applyScanResults(apState, positionState, results,
                                         tick.now, runtimeConfig)
             count == appState.tickCount + 1
             due == SnapshotDue(count, runtimeConfig)
             built == buildSnapshot(applied.apState, tick.now, "live",
                                    runtimeConfig, replayState.active)
             counted == [appState EXCEPT
                           !.tickCount = StoredCount(count, runtimeConfig,
                                                     TRUE)]
             ingest == [count |-> 1, now |-> tick.now,
                        evicted |-> applied.evicted,
                        released |-> applied.evicted \cap positionState]
         IN  CASE stage = "scan" ->
                    /\ appState' = scanTickFinally(appState)
                    /\ UNCHANGED <<apState, positionState, lastIngest>>
               [] stage = "ingest" ->
                    /\ \E k \in 0..(Len(results) - 1) :
                         apState' = IngestAll(apState, SubSeq(results, 1, k),
                                              tick.now,
                                              runtimeConfig.windowSize)
                    /\ appState' = scanTickFinally(appState)
                    /\ UNCHANGED <<positionState, lastIngest>>
               [] stage = "build" ->
                    /\ due
                    /\ apState' = applied.apState
                    /\ positionState' = applied.positionState
                    /\ lastIngest' = ingest
                    /\ appState' = scanTickFinally(counted)
               [] stage = "broadcast" ->
                    /\ due
                    /\ apState' = applied.apState
                    /\ positionState' = built.positionState
                    /\ lastIngest' = ingest
                    /\ appState' = scanTickFinally(
                                      [counted EXCEPT
                                         !.lastSnapshot = built.snapshot])
    /\ tick' = NoTick
    /\ scanTimer' = scheduleNextScan(scanTimer)
    /\ UNCHANGED <<clock, runtimeConfig, replayState, shuttingDown,
                   httpStatus, lastTrim>>
    /\ UNCHANGED <<analyze, pacing, calc, client, recordState, recordLog>>

\* What the scan of a tick of this specification found when the tick
\* went on or threw: nothing, or two networks.
FaultBatches == { <<>>, <<StrongA, MidB>> }

\* The awaited scan settles: scanTick throws, or runs to its end.
ScanSettles ==
    \/ ScanFails(FaultBatches)
    \/ ScanCompleteCounting(FaultBatches, TRUE)

\* PUT /config requests that change the scan interval, and so set the scan
\* timer anew.
IntervalBodies ==
    { Body(Num(30000), Absent, Absent, Absent),
      Body(Num(50000), Absent, Absent, Absent) }

NextFaults ==
    \/ TimePasses(MaxFaultClock)
    \/ ScanTimerFire
    \/ ScanFails(FaultBatches)
    \/ ScanCompleteCounting(FaultBatches, TRUE)
    \/ PutConfig(IntervalBodies)

\* Time passes and an awaited scan settles (every scanner command has a
\* timeout); a timer that is due again and again fires at last, however
\* often PUT /config sets it anew.
SpecFaults ==
    /\ InitWith(EnvWindowSize)
    /\ [][NextFaults]_vars
    /\ WF_vars(TimePasses(MaxFaultClock))
    /\ WF_vars(ScanSettles)
    /\ SF_vars(ScanTimerFire)

\* ------------------------------------------------------------ replay end
\* The live loop and replays for ever, with neither shutdown nor a stop
\* request: time passes, a timer that is due fires, and an awaited scan
\* settles (tick.pending does not stay set for ever).
ReplayEndBatches == { <<>>, <<StrongA>> }

NextReplayEnd ==
    \/ TimePasses(MaxFaultClock)
    \/ ScanTimerFire
    \/ ScanCompleteCounting(ReplayEndBatches, TRUE)
    \/ ReplayStart
    \/ ReplayTimerFire

SpecReplayEnd ==
    /\ InitWith(EnvWindowSize)
    /\ [][NextReplayEnd]_vars
    /\ WF_vars(TimePasses(MaxFaultClock))
    /\ WF_vars(ScanTimerFire)
    /\ WF_vars(ReplayTimerFire)
    /\ []<>(~tick.pending)

\* ------------------------------------------------------------- analyze run
\* The analyze command: wifi-topology-viewer --analyze --no-server
\* --duration AnalyzeDurationSec, started with EVICT_AFTER_MS =
\* AnalyzeEvictAfterMs; Date.now() moves in steps of AnalyzeStepMs.
AnalyzeDurationSec == 2
AnalyzeStepMs == 500
AnalyzeEvictAfterMs == 500

\* The defaults runAnalyzeCommand passes on.
AnalyzeScanIntervalMs == 1000
AnalyzeWindowSize == 30
AnalyzeMaxAps == 40

\* error.exitCode of the zero-observations error, and the exit code of an
\* error that carries none.
ZeroObservedExitCode == 2
FatalExitCode == 1

AnalyzeConfig ==
    [durationSec |-> AnalyzeDurationSec,
     scanIntervalMs |-> AnalyzeScanIntervalMs,
     windowSize |-> AnalyzeWindowSize,
     evictAfterMs |-> AnalyzeEvictAfterMs,
     maxAps |-> AnalyzeMaxAps]

\* What one scan of the analyze run may return.
AnalyzeBatches == { <<>>, <<StrongA>>, <<BrokenB, WeakA>>, <<MidB>> }

\* applyScanResults of analyze.js: ingestion and eviction, no position store.
applyScanResultsAnalyze(store, results, now, windowSize, evictAfterMs) ==
    DropStale(IngestAll(store, results, now, windowSize), now, evictAfterMs)

\* The ids the loop adds to observedBssids: every entry with a truthy bssid.
ObservedIn(results) ==
    { results[i].bssid : i \in { j \in 1..Len(results) : results[j].bssid # "" } }

buildAnalyzeSnapshot(now, store, config, scanCount) ==
    LET active == ActiveRecords(store, now, config)
    IN  [type |-> "snapshot",
         t |-> now,
         aps |-> [i \in 1..Len(active) |-> ApView(active[i])],
         meta |-> [mode |-> "analyze",
                   scanIntervalMs |-> config.scanIntervalMs,
                   windowSize |-> config.windowSize,
                   maxAps |-> config.maxAps,
                   activeApCount |-> Len(active),
                   scanCount |-> scanCount]]

\* The two counts of buildAnalysisSummary.
buildAnalysisSummary(aps, observedApCount) ==
    [apsObserved |-> IF IsFinite(observedApCount) THEN observedApCount
                     ELSE Len(aps),
     apsTracked |-> Len(aps)]

\* A run that never throws.
NeverZeroNetworks(summary) == FALSE

\* The test under which runAnalyzeSession throws.
ZeroNetworks(summary) == summary.apsObserved = 0 \/ summary.apsTracked = 0

\* The code after the loop: the final snapshot and summary at endedAt, then
\* the throw or the return.
EndSession(run) ==
    LET snapshot == buildAnalyzeSnapshot(run.now, run.apState, AnalyzeConfig,
                                         run.scanCount)
        summary == buildAnalysisSummary(snapshot.aps,
                                        Cardinality(run.observedBssids))
    IN  [run EXCEPT !.pc = "settled",
                    !.built = @ + 1,
                    !.summary = summary,
                    !.outcome = IF ZeroNetworks(summary) THEN "threw"
                                ELSE "returned",
                    !.errorExitCode = IF ZeroNetworks(summary)
                                      THEN ZeroObservedExitCode ELSE NaN]

\* process.exitCode as runAnalyzeCommand sets it; the report file is
\* written without error.
CommandExitCode(outcome, errorExitCode) ==
    IF outcome = "returned" THEN 0
    ELSE IF IsFinite(errorExitCode) THEN errorExitCode
    ELSE FatalExitCode

\* The server process is not part of the analyze and pacing specifications.
ServerOff ==
    /\ clock = 0
    /\ runtimeConfig = InitialConfig
    /\ appState = [tickCount |-> 0, scanInFlight |-> FALSE, mode |-> "live",
                   lastSnapshot |-> Null]
    /\ replayState = IdleReplay
    /\ apState = <<>>
    /\ positionState = {}
    /\ scanTimer = NoTimer
    /\ shuttingDown = FALSE
    /\ tick = NoTick
    /\ httpStatus = 0
    /\ lastIngest = NoIngest
    /\ lastTrim = NoTrim
    /\ recordState = IdleRecording
    /\ recordLog = NoRecordLog

\* runAnalyzeSession at its first loop test: startedAt = Date.now() = 0.
\* The field built counts the final snapshots, each with its summary, that
\* the run has built.
InitAnalyzeWith(durationSec) ==
    /\ ServerOff
    /\ pacing = NoPacing
    /\ calc = NoCalc
    /\ client = NoClient
    /\ analyze = [pc |-> "loop", now |-> 0,
                  endAt |-> durationSec * 1000,
                  scanStartedAt |-> 0, wakeAt |-> 0,
                  apState |-> <<>>, observedBssids |-> {}, scanCount |-> 0,
                  built |-> 0,
                  summary |-> [apsObserved |-> 0, apsTracked |-> 0],
                  outcome |-> "none", errorExitCode |-> NaN,
                  exitCode |-> NaN]

InitAnalyze == InitAnalyzeWith(AnalyzeConfig.durationSec)

\* Time passes while the run awaits a scan or a delay.
AnalyzeAdvance ==
    /\ analyze.pc \in {"scanning", "sleeping"}
    /\ analyze.now < analyze.endAt + AnalyzeStepMs
    /\ analyze' = [analyze EXCEPT !.now = @ + AnalyzeStepMs]
    /\ UNCHANGED <<serverVars, pacing, calc, client>>

\* A while test that always holds.
analyzeLoopUnbounded ==
    /\ analyze.pc = "loop"
    /\ analyze' = [analyze EXCEPT !.pc = "scanning",
                                  !.scanStartedAt = analyze.now]
    /\ UNCHANGED <<serverVars, pacing, calc, client>>

\* The while test: the next scan starts, or the loop is left.
AnalyzeLoop ==
    /\ analyze.pc = "loop"
    /\ analyze' = IF analyze.now < analyze.endAt
                  THEN [analyze EXCEPT !.pc = "scanning",
                                       !.scanStartedAt = analyze.now]
                  ELSE EndSession(analyze)
    /\ UNCHANGED <<serverVars, pacing, calc, client>>

\* scanWifiNetworks resolves: the rest of the loop body, up to the break
\* (and then the code after the loop) or the await of delay(sleepMs).
AnalyzeScanResolves(batches) ==
    /\ analyze.pc = "scanning"
    /\ \E results \in batches :
         LET now == analyze.now
             scanned == [analyze EXCEPT
                           !.scanCount = @ + 1,
                           !.observedBssids = @ \cup ObservedIn(results),
                           !.apState = applyScanResultsAnalyze(
                                          @, results, now,
                                          AnalyzeConfig.windowSize,
                                          AnalyzeConfig.evictAfterMs)]
             elapsedMs == now - analyze.scanStartedAt
             remainingMs == analyze.endAt - now
             sleepMs == Max2(0, Min2(AnalyzeConfig.scanIntervalMs - elapsedMs,
                                     remainingMs))
         IN  analyze' = IF remainingMs <= 0 THEN EndSession(scanned)
                        ELSE IF sleepMs <= 0
                             THEN [scanned EXCEPT !.pc = "loop"]
                             ELSE [scanned EXCEPT !.pc = "sleeping",
                                                  !.wakeAt = now + sleepMs]
    /\ UNCHANGED <<serverVars, pacing, calc, client>>

\* The timer of delay(sleepMs) fires.
AnalyzeWake ==
    /\ analyze.pc = "sleeping"
    /\ analyze.now >= analyze.wakeAt
    /\ analyze' = [analyze EXCEPT !.pc = "loop"]
    /\ UNCHANGED <<serverVars, pacing, calc, client>>

\* runAnalyzeCommand after runAnalyzeSession settled: the report is written
\* and process.exitCode set to 0, or the catch block sets it.
AnalyzeCommandEnds ==
    /\ analyze.pc = "settled"
    /\ analyze' = [analyze EXCEPT
                     !.pc = "exited",
                     !.exitCode = CommandExitCode(analyze.outcome,
                                                  analyze.errorExitCode)]
    /\ UNCHANGED <<serverVars, pacing, calc, client>>

NextAnalyze ==
    \/ AnalyzeAdvance
    \/ AnalyzeLoop
    \/ AnalyzeScanResolves(AnalyzeBatches)
    \/ AnalyzeWake
    \/ AnalyzeCommandEnds

SpecAnalyze == InitAnalyze /\ [][NextAnalyze]_vars

\* The analyze run for every whole --duration up to AnalyzeDurationSec:
\* time passes, every scan returns, and every timer that is due fires.
InitAnalyzeEnds == \E durationSec \in 1..AnalyzeDurationSec :
                     InitAnalyzeWith(durationSec)

SpecAnalyzeEnds ==
    /\ InitAnalyzeEnds
    /\ [][NextAnalyze]_vars
    /\ WF_vars(AnalyzeAdvance)
    /\ WF_vars(AnalyzeLoop)
    /\ WF_vars(AnalyzeScanResolves(AnalyzeBatches))
    /\ WF_vars(AnalyzeWake)
    /\ WF_vars(AnalyzeCommandEnds)

\* ----------------------------------------------------------- replay pacing
\* A replay of a recorded file of PacingEntries entries; the t of an entry
\* is one of PacingTimes (NaN: an entry whose t is not a number).
PacingEntries == 2
PacingTimes == {NaN, 1000, 1030, 1040, 1041, 1500, 40000}
\* The speeds POST /replay/start accepts lie in 0.2 .. 8 (tenths: 2 .. 80).
PacingSpeeds == {2, 5, 10, 80}
\* runtimeConfig.scanIntervalMs
PacingFallbacks == {ScanIntervalMin, DefaultScanIntervalMs, ScanIntervalMax}

PacingFiles == [1..PacingEntries -> PacingTimes]

InitPacing ==
    /\ ServerOff
    /\ analyze = NoAnalyze
    /\ calc = NoCalc
    /\ client = NoClient
    /\ \E entries \in PacingFiles, speed \in PacingSpeeds,
          fallbackMs \in PacingFallbacks :
         pacing = [pc |-> "replay", entries |-> entries, speed |-> speed,
                   fallbackMs |-> fallbackMs, index |-> 0,
                   hasNext |-> FALSE, currentT |-> NaN, nextT |-> NaN,
                   delayMs |-> NaN, timerMs |-> NaN]

\* emitReplayTick for the entry at replayState.index: the delay it computes
\* and the one scheduleReplayTick sets the timer to.
PacingEmit ==
    /\ pacing.pc = "replay"
    /\ pacing.index < Len(pacing.entries)
    /\ LET currentT == pacing.entries[pacing.index + 1]
           hasNext == pacing.index + 2 <= Len(pacing.entries)
           nextT == IF hasNext THEN pacing.entries[pacing.index + 2] ELSE NaN
           delayMs == computeReplayDelayMs(currentT, hasNext, nextT,
                                           pacing.speed, pacing.fallbackMs)
       IN  pacing' = [pacing EXCEPT !.index = @ + 1,
                                    !.hasNext = hasNext,
                                    !.currentT = currentT,
                                    !.nextT = nextT,
                                    !.delayMs = delayMs,
                                    !.timerMs = ReplayTimerDelay(delayMs)]
    /\ UNCHANGED <<serverVars, analyze, calc, client>>

NextPacing == PacingEmit

SpecPacing == InitPacing /\ [][NextPacing]_vars

\* ------------------------------------------------------------ edge selector
\* Correlations and thresholds are kept in hundredths.  A correlation
\* matrix is symmetric with 1.00 on its diagonal, as buildCorrelationMatrix
\* leaves it.
MaxIds == 3
DiagonalCorr == 100
DefaultMaxEdges == 120

IdList(n) == SubSeq(<<"a", "b", "c", "d", "e">>, 1, n)

\* The symmetric matrices over n ids: an upper triangle f, mirrored.  Ids
\* more than span places apart in the list have the correlation far.
CorrMatrices(n, values, span, far) ==
    LET pairs == { p \in (1..n) \X (1..n) :
                     p[1] < p[2] /\ p[2] - p[1] <= span }
    IN  { [i \in 1..n |->
             [j \in 1..n |->
                IF i = j THEN DiagonalCorr
                ELSE IF <<Min2(i, j), Max2(i, j)>> \in pairs
                     THEN f[<<Min2(i, j), Max2(i, j)>>]
                     ELSE far]] :
          f \in [pairs -> values] }

\* The inner loop over j: the candidates of row i, in column order.
RECURSIVE RowCandidates(_, _, _, _)
RowCandidates(row, i, j, minCorr) ==
    IF j > Len(row) THEN <<>>
    ELSE IF j # i /\ row[j] > minCorr
         THEN <<[j |-> j, corr |-> row[j]]>>
              \o RowCandidates(row, i, j + 1, minCorr)
         ELSE RowCandidates(row, i, j + 1, minCorr)

\* Array.prototype.sort with (a, b) => b.corr - a.corr: descending, and
\* stable for equal corr.
RECURSIVE InsertByCorr(_, _)
InsertByCorr(item, sorted) ==
    IF sorted = <<>> THEN <<item>>
    ELSE IF Head(sorted).corr <= item.corr
         THEN <<item>> \o sorted
         ELSE <<Head(sorted)>> \o InsertByCorr(item, Tail(sorted))

RECURSIVE SortByCorrDesc(_)
SortByCorrDesc(items) ==
    IF items = <<>> THEN <<>>
    ELSE InsertByCorr(Head(items), SortByCorrDesc(Tail(items)))

\* edgeByKey after the candidates of row i: a new key goes to the end, a
\* known key keeps its place and takes the candidate only when stronger.
RECURSIVE MergeRow(_, _, _, _)
MergeRow(edges, ids, i, candidates) ==
    IF candidates = <<>> THEN edges
    ELSE LET candidate == Head(candidates)
             a == IF i < candidate.j THEN i ELSE candidate.j
             b == IF i < candidate.j THEN candidate.j ELSE i
             edge == [a |-> ids[a], b |-> ids[b], corr |-> candidate.corr]
             at == { k \in 1..Len(edges) :
                       edges[k].a = ids[a] /\ edges[k].b = ids[b] }
             merged ==
                 IF at = {} THEN Append(edges, edge)
                 ELSE LET k == CHOOSE k \in at : TRUE
                      IN  IF candidate.corr > edges[k].corr
                          THEN [edges EXCEPT ![k] = edge]
                          ELSE edges
         IN  MergeRow(merged, ids, i, Tail(candidates))

\* The outer loop over i, from row i on: the values of edgeByKey, in
\* insertion order.
RECURSIVE MergedCandidates(_, _, _, _, _, _)
MergedCandidates(edges, ids, corrMatrix, i, maxPerNode, minCorr) ==
    IF i > Len(ids) THEN edges
    ELSE MergedCandidates(
           MergeRow(edges, ids, i,
                    Slice(SortByCorrDesc(
                            RowCandidates(corrMatrix[i], i, 1, minCorr)),
                          maxPerNode)),
           ids, corrMatrix, i + 1, maxPerNode, minCorr)

\* A selector that returns the merged candidates in the order it found them.
unsortedEdges(ids, corrMatrix, maxPerNode, minCorr, maxEdges) ==
    Slice(MergedCandidates(<<>>, ids, corrMatrix, 1, maxPerNode, minCorr),
          maxEdges)

\* A selector that takes every pair of the matrix.
unfilteredEdges(ids, corrMatrix, maxPerNode, minCorr, maxEdges) ==
    Slice(SortByCorrDesc(
            MergedCandidates(<<>>, ids, corrMatrix, 1, maxPerNode,
                             -DiagonalCorr - 1)),
          maxEdges)

buildTopCorrelationEdges(ids, corrMatrix, maxPerNode, minCorr, maxEdges) ==
    Slice(SortByCorrDesc(
            MergedCandidates(<<>>, ids, corrMatrix, 1, maxPerNode, minCorr)),
          maxEdges)

\* The calls of the edge selector: the server passes maxPerNode = 2 and the
\* configured edgeThreshold and maxEdges.
EdgeCall ==
    \E n \in 0..MaxIds :
      \E corrMatrix \in CorrMatrices(n, {-20, 50, 90}, n, 0),
         maxPerNode \in {1, 2}, minCorr \in {0, 50}, maxEdges \in {1, 2, 80} :
        calc = [fn |-> "buildTopCorrelationEdges", pc |-> "call",
                ids |-> IdList(n), corrMatrix |-> corrMatrix,
                maxPerNode |-> maxPerNode, minCorr |-> minCorr,
                maxEdges |-> maxEdges, merged |-> <<>>, edges |-> <<>>]

\* The call returns.
EdgesReturn ==
    /\ calc.fn = "buildTopCorrelationEdges"
    /\ calc.pc = "call"
    /\ calc' = [calc EXCEPT
                  !.pc = "done",
                  !.merged = MergedCandidates(<<>>, calc.ids, calc.corrMatrix,
                                              1, calc.maxPerNode,
                                              calc.minCorr),
                  !.edges = buildTopCorrelationEdges(
                              calc.ids, calc.corrMatrix, calc.maxPerNode,
                              calc.minCorr, calc.maxEdges)]
    /\ UNCHANGED <<serverVars, analyze, pacing, client>>

\* --------------------------------------------------------- cluster detector
MaxClusterIds == 4

\* An edge that is not skipped adds each endpoint to the other's set.
EdgeLinks(edge, minCorr) == ~(edge.corr < minCorr)

\* graph: the neighbour set of every id of the list; graph.get(x)?.add(y)
\* does nothing for an x that is not in the list.
Graph(ids, edges, minCorr) ==
    [id \in { ids[k] : k \in 1..Len(ids) } |->
       { edges[k].b : k \in { k \in 1..Len(edges) :
                                EdgeLinks(edges[k], minCorr)
                                /\ edges[k].a = id } }
       \cup
       { edges[k].a : k \in { k \in 1..Len(edges) :
                                EdgeLinks(edges[k], minCorr)
                                /\ edges[k].b = id } }]

\* The while loop over the stack: every node reached from the frontier that
\* was not visited before.
RECURSIVE Members(_, _, _)
Members(graph, frontier, members) ==
    IF frontier = {} THEN members
    ELSE LET found == UNION { graph[node] : node \in frontier \cap DOMAIN graph }
             fresh == found \ members
         IN  Members(graph, fresh, members \cup fresh)

\* summary.sort((a, b) => b - a)
RECURSIVE SortDesc(_)
SortDesc(sizes) ==
    IF sizes = <<>> THEN <<>>
    ELSE LET k == CHOOSE k \in 1..Len(sizes) :
                    \A l \in 1..Len(sizes) : sizes[l] <= sizes[k]
         IN  <<sizes[k]>>
             \o SortDesc(SubSeq(sizes, 1, k - 1)
                         \o SubSeq(sizes, k + 1, Len(sizes)))

\* The loop over ids from position k on.
RECURSIVE AssignClusters(_, _, _, _, _, _)
AssignClusters(ids, k, graph, visited, clusterId, result) ==
    IF k > Len(ids)
    THEN [result EXCEPT !.summary = SortDesc(result.summary)]
    ELSE IF ids[k] \in visited
    THEN AssignClusters(ids, k + 1, graph, visited, clusterId, result)
    ELSE LET members == Members(graph, {ids[k]}, visited \cup {ids[k]})
                          \ visited
             size == Cardinality(members)
             keys == DOMAIN result.clusterById \cup members
         IN  IF size > 1
             THEN AssignClusters(
                    ids, k + 1, graph, visited \cup members, clusterId + 1,
                    [clusterById |->
                       [id \in keys |-> IF id \in members THEN clusterId
                                        ELSE result.clusterById[id]],
                     clusterSizeById |->
                       [id \in keys |-> IF id \in members THEN size
                                        ELSE result.clusterSizeById[id]],
                     summary |-> Append(result.summary, size)])
             ELSE AssignClusters(ids, k + 1, graph, visited \cup members,
                                 clusterId, result)

\* A detector that numbers every component, the single ids too.
clustersOfOne(ids, edges, minCorr) ==
    [clusterById |-> [id \in { ids[k] : k \in 1..Len(ids) } |->
                        CHOOSE k \in 1..Len(ids) : ids[k] = id],
     clusterSizeById |-> [id \in { ids[k] : k \in 1..Len(ids) } |-> 1],
     summary |-> <<>>]

buildClusters(ids, edges, minCorr) ==
    AssignClusters(
      ids, 1, Graph(ids, edges, minCorr), {}, 1,
      [clusterById |-> [id \in { ids[k] : k \in 1..Len(ids) } |-> 0],
       clusterSizeById |-> [id \in { ids[k] : k \in 1..Len(ids) } |-> 1],
       summary |-> <<>>])

\* The calls of the detector: an edge list as the edge selector returns it
\* and a threshold.
ClusterCall ==
    \E n \in 0..MaxClusterIds :
      \E corrMatrix \in CorrMatrices(n, {0, 50, 90}, 2, 0),
         minCorr \in {50, 90} :
        calc = [fn |-> "buildClusters", pc |-> "call",
                ids |-> IdList(n),
                edges |-> buildTopCorrelationEdges(IdList(n), corrMatrix,
                                                   2, 0, 80),
                minCorr |-> minCorr,
                clusters |-> Null]

\* The call returns.
ClustersReturn ==
    /\ calc.fn = "buildClusters"
    /\ calc.pc = "call"
    /\ calc' = [calc EXCEPT
                  !.pc = "done",
                  !.clusters = buildClusters(calc.ids, calc.edges,
                                             calc.minCorr)]
    /\ UNCHANGED <<serverVars, analyze, pacing, client>>

\* ------------------------------------------------------ signal statistics
\* Samples are integers, weights hundredths, correlations hundredths.
MaxSamples == 3

\* Math.floor(Math.sqrt(n)) for lo * lo <= n < hi * hi.
RECURSIVE FloorSqrt(_, _, _)
FloorSqrt(n, lo, hi) ==
    IF hi - lo <= 1 THEN lo
    ELSE LET mid == (lo + hi) \div 2
         IN  IF mid * mid <= n THEN FloorSqrt(n, mid, hi)
             ELSE FloorSqrt(n, lo, mid)

RECURSIVE Gcd(_, _)
Gcd(a, b) == IF b = 0 THEN a ELSE Gcd(b, a % b)

\* The weighted sums of the two loops over the samples from position i on:
\* of the weights, of x, y, x * x, y * y and x * y, and the greatest common
\* divisor of the weights.  A skipped sample has weight 0.
RECURSIVE Sums(_, _, _, _)
Sums(x, y, w, i) ==
    IF i > Len(w)
    THEN [w |-> 0, x |-> 0, y |-> 0, xx |-> 0, yy |-> 0, xy |-> 0, gcd |-> 0]
    ELSE LET rest == Sums(x, y, w, i + 1)
         IN  [w |-> rest.w + w[i],
              x |-> rest.x + w[i] * x[i],
              y |-> rest.y + w[i] * y[i],
              xx |-> rest.xx + w[i] * x[i] * x[i],
              yy |-> rest.yy + w[i] * y[i] * y[i],
              xy |-> rest.xy + w[i] * x[i] * y[i],
              gcd |-> Gcd(rest.gcd, w[i])]

\* A weights argument: an array, or anything else (undefined, null).
NotAnArray == [isArray |-> FALSE, items |-> <<>>]
Array(items) == [isArray |-> TRUE, items |-> items]

\* normalizeWeights(weights, overlap): the last overlap weights, padded in
\* front with 1; normalizeWeight turns a non-finite weight into 1 and
\* clamps the others to [0, 1].
normalizeWeights(weights, overlap) ==
    IF ~weights.isArray \/ weights.items = <<>> THEN Repeat(100, overlap)
    ELSE LET sliced == LastN(weights.items, overlap)
         IN  Repeat(100, overlap - Len(sliced))
             \o [i \in 1..Len(sliced) |->
                   IF ~IsFinite(sliced[i]) THEN 100
                   ELSE clamp(sliced[i], 0, 100)]

\* weightedPearsonCorrelation.  The merged weight sqrt(wx * wy) is kept in
\* whole hundredths; the sums are taken over the weights divided by their
\* greatest common divisor and with the means multiplied out, which leaves
\* the quotient as it is.  The quotient is kept in hundredths: 0 for a
\* covariance of 0, +-1 for pairs that lie on one line, and between 0.01
\* and 0.99 in size otherwise, the three sums scaled down alike before the
\* division.  minLength is the bound of the first guard, minPairs that of
\* the second.
pearsonOver(xs, ys, weightsX, weightsY, minLength, minPairs) ==
    LET overlap == Min2(Len(xs), Len(ys))
        x == LastN(xs, overlap)
        y == LastN(ys, overlap)
        wx == normalizeWeights(weightsX, overlap)
        wy == normalizeWeights(weightsY, overlap)
        merged == [i \in 1..overlap |-> FloorSqrt(wx[i] * wy[i], 0, 101)]
        filtered == { i \in 1..overlap : merged[i] > 0 }
        sums == Sums(x, y, merged, 1)
        weight == sums.w \div sums.gcd
        covariance == weight * (sums.xy \div sums.gcd)
                      - (sums.x \div sums.gcd) * (sums.y \div sums.gcd)
        varianceX == weight * (sums.xx \div sums.gcd)
                     - (sums.x \div sums.gcd) * (sums.x \div sums.gcd)
        varianceY == weight * (sums.yy \div sums.gcd)
                     - (sums.y \div sums.gcd) * (sums.y \div sums.gcd)
        size == IF covariance >= 0 THEN covariance ELSE -covariance
        onOneLine == \A i, j, k \in filtered :
                       (x[j] - x[i]) * (y[k] - y[i])
                         = (x[k] - x[i]) * (y[j] - y[i])
        scale == 1 + Max2(varianceX, varianceY) \div 20000
        root == FloorSqrt(Max2(1, varianceX \div scale)
                          * Max2(1, varianceY \div scale), 0, 46340)
        quotient == IF covariance = 0 THEN 0
                    ELSE IF onOneLine THEN 100
                    ELSE clamp((100 * (size \div scale)) \div Max2(1, root),
                               1, 99)
    IN  IF overlap < minLength THEN 0
        ELSE IF Cardinality(filtered) < minPairs THEN 0
        ELSE IF filtered = {} THEN 0
        ELSE IF varianceX <= 0 \/ varianceY <= 0 THEN 0
        ELSE clamp(IF covariance >= 0 THEN quotient ELSE -quotient,
                   -100, 100)

\* A correlation that counts the samples but not the weighted pairs.
pearsonOfAnyWeights(xs, ys, weightsX, weightsY, minOverlap) ==
    pearsonOver(xs, ys, weightsX, weightsY, minOverlap, 0)

weightedPearsonCorrelation(xs, ys, weightsX, weightsY, minOverlap) ==
    pearsonOver(xs, ys, weightsX, weightsY, minOverlap, minOverlap)

\* The calls of the correlation: two windows, their weight windows and a
\* minimum overlap.
PearsonCall ==
    \E xs \in UNION { [1..k -> {0, 1}] : k \in 0..MaxSamples },
       ys \in { <<>>, <<2>>, <<0, 2>>, <<0, 2, 0>>, <<2, 0, 2, 2>> },
       weightsX \in { NotAnArray, Array(<<>>), Array(<<100, 100, 100>>),
                      Array(<<0, 100, 100>>), Array(<<0, 0, 100>>),
                      Array(<<100, 0>>), Array(<<NaN, -50, 150>>),
                      Array(<<25, 100, 25>>), Array(<<0, 0, 0, 0>>) },
       weightsY \in { NotAnArray, Array(<<100, 100, 100>>),
                      Array(<<25, 0, 100>>), Array(<<0>>) },
       minOverlap \in {2, 3} :
      calc = [fn |-> "weightedPearsonCorrelation", pc |-> "call",
              xs |-> xs, ys |-> ys, weightsX |-> weightsX,
              weightsY |-> weightsY, minOverlap |-> minOverlap, corr |-> 0]

\* The call returns.
PearsonReturn ==
    /\ calc.fn = "weightedPearsonCorrelation"
    /\ calc.pc = "call"
    /\ calc' = [calc EXCEPT
                  !.pc = "done",
                  !.corr = weightedPearsonCorrelation(
                             calc.xs, calc.ys, calc.weightsX, calc.weightsY,
                             calc.minOverlap)]
    /\ UNCHANGED <<serverVars, analyze, pacing, client>>

\* ------------------------------------------------------- snapshot topology
buildCorrelationMatrix(sampleSeries, weightSeries, minOverlap) ==
    [i \in 1..Len(sampleSeries) |->
       [j \in 1..Len(sampleSeries) |->
          IF i = j THEN DiagonalCorr
          ELSE weightedPearsonCorrelation(
                 sampleSeries[Min2(i, j)], sampleSeries[Max2(i, j)],
                 weightSeries[Min2(i, j)], weightSeries[Max2(i, j)],
                 minOverlap)]]

\* A snapshot whose entities are all in no cluster.
noClusters(activeRecords, minOverlap, edgeThreshold, maxEdges) ==
    [edges |-> <<>>,
     aps |-> [i \in 1..Len(activeRecords) |->
                [bssid |-> activeRecords[i].bssid,
                 clusterId |-> 0, clusterSize |-> 1]],
     clusterSizes |-> <<>>]

\* The part of buildSnapshot between the active records and the packet: the
\* edges, and the cluster of every entity.
snapshotTopology(activeRecords, minOverlap, edgeThreshold, maxEdges) ==
    LET ids == [i \in 1..Len(activeRecords) |-> activeRecords[i].bssid]
        corrMatrix ==
            buildCorrelationMatrix(
              [i \in 1..Len(activeRecords) |-> activeRecords[i].samples],
              [i \in 1..Len(activeRecords) |->
                 Array(activeRecords[i].sampleWeights)],
              minOverlap)
        edges == buildTopCorrelationEdges(ids, corrMatrix, 2, edgeThreshold,
                                          maxEdges)
        clusters == buildClusters(ids, edges, edgeThreshold)
    IN  [edges |-> edges,
         aps |-> [i \in 1..Len(activeRecords) |->
                    [bssid |-> ids[i],
                     clusterId |-> clusters.clusterById[ids[i]],
                     clusterSize |-> clusters.clusterSizeById[ids[i]]]],
         clusterSizes |-> clusters.summary]

\* The calls: three records with windows of signal strengths -40 and -70,
\* every record with the weight of one kind of reading.
TopologyCall ==
    \E windows \in (UNION { [1..k -> {-40, -70}] : k \in 1..MaxSamples })
                   \X (UNION { [1..k -> {-40, -70}] : k \in 1..MaxSamples })
                   \X { <<-40>>, <<-70, -40>>, <<-40, -70, -40>> },
       weightB \in {100, 45}, minOverlap \in {2, 3} :
      calc = [fn |-> "snapshotTopology", pc |-> "call",
              activeRecords |->
                [i \in 1..3 |->
                   [bssid |-> IdList(3)[i],
                    samples |-> windows[i],
                    sampleWeights |->
                      Repeat(IF i = 2 THEN weightB ELSE 100,
                             Len(windows[i]))]],
              minOverlap |-> minOverlap,
              edgeThreshold |-> DefaultEdgeThreshold,
              maxEdges |-> DefaultMaxEdges,
              topology |-> Null]

\* The call returns.
TopologyReturn ==
    /\ calc.fn = "snapshotTopology"
    /\ calc.pc = "call"
    /\ calc' = [calc EXCEPT
                  !.pc = "done",
                  !.topology = snapshotTopology(
                                 calc.activeRecords, calc.minOverlap,
                                 calc.edgeThreshold, calc.maxEdges)]
    /\ UNCHANGED <<serverVars, analyze, pacing, client>>

\* ---------------------------------------------------------- stability score
\* varianceValue and varRef are kept in hundredths, sampleCount and countRef
\* are counts, the score is in hundredths.

\* A score without the clamps.
stabilityUnclamped(varianceValue, sampleCount, varRef, countRef) ==
    LET variance == IF IsFinite(varianceValue) THEN varianceValue ELSE varRef
        count == IF IsFinite(sampleCount) THEN sampleCount ELSE 0
    IN  RoundDiv(100 * (Max2(100, varRef) - variance) * count,
                 Max2(100, varRef) * Max2(1, countRef))

computeStabilityScore(varianceValue, sampleCount, varRef, countRef) ==
    LET variance == IF IsFinite(varianceValue) THEN Max2(0, varianceValue)
                    ELSE varRef
        count == IF IsFinite(sampleCount) THEN Max2(0, sampleCount) ELSE 0
        varDivisor == Max2(100, varRef)
        countDivisor == Max2(1, countRef)
        \* varNorm and countBoost as the numerators over the two divisors
        varNorm == clamp(variance, 0, varDivisor)
        countBoost == clamp(count, 0, countDivisor)
    IN  clamp(RoundDiv(100 * (varDivisor - varNorm) * countBoost,
                       varDivisor * countDivisor),
              0, 100)

\* The calls of the score: buildSnapshot passes the sample variance of a
\* window, its length, varRef 100 and the configured windowSize; a value
\* that is not finite stands for a missing one.
StabilityCall ==
    \E varianceValue \in {NaN, -100, 0, 1, 50, 2500, 9999, 10000, 10001, 25000},
       sampleCount \in {NaN, -1, 0, 1, 2, 29, 30, 31},
       varRef \in {100, 10000}, countRef \in {1, 2, 30} :
      calc = [fn |-> "computeStabilityScore", pc |-> "call",
              varianceValue |-> varianceValue, sampleCount |-> sampleCount,
              varRef |-> varRef, countRef |-> countRef, stability |-> NaN]

\* The call returns.
StabilityReturn ==
    /\ calc.fn = "computeStabilityScore"
    /\ calc.pc = "call"
    /\ calc' = [calc EXCEPT
                  !.pc = "done",
                  !.stability = computeStabilityScore(
                                  calc.varianceValue, calc.sampleCount,
                                  calc.varRef, calc.countRef)]
    /\ UNCHANGED <<serverVars, analyze, pacing, client>>

\* ------------------------------------------------------------ sample weight
\* The calls of deriveSampleWeight: a reading with every combination of
\* rssiEstimated, bssidSynthetic and scanSource.
WeightCall ==
    \E est \in BOOLEAN, syn \in BOOLEAN,
       src \in {"airport", "corewlan", "system_profiler"} :
      calc = [fn |-> "deriveSampleWeight", pc |-> "call",
              ap |-> Obs("a", "Home", -40, est, src, syn), weight |-> NaN]

\* The call returns.
WeightReturn ==
    /\ calc.fn = "deriveSampleWeight"
    /\ calc.pc = "call"
    /\ calc' = [calc EXCEPT !.pc = "done",
                            !.weight = deriveSampleWeight(calc.ap)]
    /\ UNCHANGED <<serverVars, analyze, pacing, client>>

\* ---------------------------------------------------------------- positions
\* Coordinates are whole multiples of 1 / PositionUnit, so that MaxCalls
\* steps of smoothing by 1/5 (the 0.2 of buildSnapshot) or by 1/2 are exact.
MaxCalls == 3

RECURSIVE Power(_, _)
Power(b, k) == IF k = 0 THEN 1 ELSE b * Power(b, k - 1)

PositionUnit == Power(10, MaxCalls)

\* Smoothing that jumps to the target.
lerpToTarget(a, b, alpha) == b

\* lerp(a, b, alpha), alpha being alpha.num / alpha.den.
lerp(a, b, alpha) == a + ((b - a) * alpha.num) \div alpha.den

\* The result loop of embedPositions: target is coords as centerAndScale
\* leaves it, previousPositions a Map as a function on its keys.
embedPositions(ids, target, previousPositions, smoothing) ==
    [id \in { ids[i] : i \in 1..Len(ids) } |->
       LET i == CHOOSE k \in 1..Len(ids) : ids[k] = id
       IN  IF id \notin DOMAIN previousPositions
             THEN target[i]
             ELSE [axis \in 1..3 |->
                     lerp(previousPositions[id][axis], target[i][axis],
                          smoothing)]]

\* The calls of embedPositions: up to two ids with their targets, previous
\* positions for any of the ids and for one that has left the frame.
EmbedCall ==
    \E n \in 0..2 :
    \E target \in [1..n -> { <<PositionUnit, 0, -2 * PositionUnit>>,
                             <<-PositionUnit, 2 * PositionUnit, 0>> }],
       known \in SUBSET {"a", "b", "z"},
       smoothing \in { [num |-> 1, den |-> 5], [num |-> 1, den |-> 2] } :
    \E previousPositions \in
         [known -> { <<0, 0, 0>>,
                     <<2 * PositionUnit, -PositionUnit, PositionUnit>> }] :
      calc = [fn |-> "embedPositions", pc |-> "call",
              ids |-> SubSeq(<<"a", "b">>, 1, n), target |-> target,
              previousPositions |-> previousPositions,
              smoothing |-> smoothing, first |-> previousPositions,
              calls |-> 0, result |-> <<>>]

\* The call returns.
EmbedReturn ==
    /\ calc.fn = "embedPositions"
    /\ calc.pc = "call"
    /\ calc' = [calc EXCEPT
                  !.pc = "done",
                  !.calls = @ + 1,
                  !.result = embedPositions(calc.ids, calc.target,
                                            calc.previousPositions,
                                            calc.smoothing)]
    /\ UNCHANGED <<serverVars, analyze, pacing, client>>

\* The caller keeps the result as the previous positions of its next call,
\* as buildSnapshot does with positionState, the target staying as it was.
EmbedFeedsBack ==
    /\ calc.fn = "embedPositions"
    /\ calc.pc = "done"
    /\ calc.calls < MaxCalls
    /\ calc' = [calc EXCEPT !.pc = "call",
                            !.previousPositions = calc.result]
    /\ UNCHANGED <<serverVars, analyze, pacing, client>>

\* The dot product, on one axis, of the previous and the present
\* coordinates of the ids from the i-th on that have a previous position.
RECURSIVE AxisDot(_, _, _, _, _)
AxisDot(ids, coords, previousPositions, axis, i) ==
    IF i > Len(ids) THEN 0
    ELSE (IF ids[i] \in DOMAIN previousPositions
            THEN previousPositions[ids[i]][axis] * coords[i][axis]
            ELSE 0)
         + AxisDot(ids, coords, previousPositions, axis, i + 1)

\* Stabilization that takes one shared id for enough.
stabilizeFromOneShared(ids, coords, previousPositions) ==
    LET sharedIndices == { i \in 1..Len(ids) : ids[i] \in DOMAIN previousPositions }
    IN  IF Cardinality(sharedIndices) < 1 THEN coords
        ELSE [i \in 1..Len(coords) |->
                [axis \in 1..3 |->
                   IF AxisDot(ids, coords, previousPositions, axis, 1) < 0
                     THEN -coords[i][axis] ELSE coords[i][axis]]]

\* stabilizeAxisSign(ids, coords, previousPositions): coords as the call
\* leaves it.
stabilizeAxisSign(ids, coords, previousPositions) ==
    LET sharedIndices == { i \in 1..Len(ids) : ids[i] \in DOMAIN previousPositions }
    IN  IF Cardinality(sharedIndices) < 2 THEN coords
        ELSE [i \in 1..Len(coords) |->
                [axis \in 1..3 |->
                   IF AxisDot(ids, coords, previousPositions, axis, 1) < 0
                     THEN -coords[i][axis] ELSE coords[i][axis]]]

\* The calls of stabilizeAxisSign: up to MaxFrameIds ids with their
\* coordinates, previous positions for any of them.
MaxFrameIds == 3

StabilizeCall ==
    \E n \in 0..MaxFrameIds :
    \E coords \in [1..n -> { <<1, -1, 0>>, <<-2, 1, 0>>, <<1, 2, -1>> }],
       known \in SUBSET { IdList(n)[i] : i \in 1..n } :
    \E previousPositions \in [known -> { <<1, 1, 1>>, <<-1, 2, 0>> }] :
      calc = [fn |-> "stabilizeAxisSign", pc |-> "call",
              ids |-> IdList(n), coords |-> coords,
              previousPositions |-> previousPositions, stabilized |-> <<>>]

\* The call returns.
StabilizeReturn ==
    /\ calc.fn = "stabilizeAxisSign"
    /\ calc.pc = "call"
    /\ calc' = [calc EXCEPT
                  !.pc = "done",
                  !.stabilized = stabilizeAxisSign(calc.ids, calc.coords,
                                                   calc.previousPositions)]
    /\ UNCHANGED <<serverVars, analyze, pacing, client>>

\* ------------------------------------------------------------- the packet
\* The packet buildSnapshot assembles from the records it picked, the
\* topology computed from them and the Map embedPositions returned: the
\* entity list with the cluster of every entity, the keys of the position
\* object, the edges and the counts of meta. The coordinates are left out.
Packet(activeRecords, topology, nextPositions, now) ==
    [type |-> "snapshot",
     t |-> now,
     aps |-> [i \in 1..Len(activeRecords) |->
                [bssid |-> activeRecords[i].bssid,
                 ssid |-> activeRecords[i].ssid,
                 rssi |-> activeRecords[i].latestRssi,
                 sampleCount |-> Len(activeRecords[i].samples),
                 lastSeen |-> activeRecords[i].lastSeen,
                 clusterId |-> topology.aps[i].clusterId,
                 clusterSize |-> topology.aps[i].clusterSize]],
     positions |-> DOMAIN nextPositions,
     edges |-> topology.edges,
     meta |-> [mode |-> "live",
               activeApCount |-> Len(activeRecords),
               clusterCount |-> Len(topology.clusterSizes),
               clusterSizes |-> topology.clusterSizes]]

\* The packet of the records given: their topology, and the positions of
\* their ids, none of which has a previous position.
PacketOf(activeRecords, now, config) ==
    Packet(activeRecords,
           snapshotTopology(activeRecords, config.minOverlap,
                            config.edgeThreshold, DefaultMaxEdges),
           embedPositions(
             [i \in 1..Len(activeRecords) |-> activeRecords[i].bssid],
             [i \in 1..Len(activeRecords) |-> <<0, 0, 0>>], <<>>,
             [num |-> 1, den |-> 5]),
           now)

\* A packet of every record of the store, the stale ones included.
packetOfStore(store, now, config) ==
    PacketOf(Slice(SortByRssiDesc(store), config.maxAps), now, config)

\* buildSnapshot(now, 'live'): the packet of the records picked.
snapshotPacket(store, now, config) ==
    PacketOf(ActiveRecords(store, now, config), now, config)

\* The calls: a store of three records seen at the time of the call or
\* longer ago than evictAfterMs, with windows that correlate or do not, and
\* a limit of two or three entities.
SnapshotCall ==
    \E windowA \in { <<-40, -70, -40>>, <<-70, -40>> },
       windowB \in { <<-40, -70, -40>>, <<-70, -40, -70>>, <<-40>> },
       windowC \in { <<-40, -70, -40>>, <<-70>> },
       lastSeen \in [1..3 -> {4, 10}],
       maxAps \in {2, 3} :
      calc = [fn |-> "buildSnapshot", pc |-> "call",
              store |->
                [i \in 1..3 |->
                   [bssid |-> IdList(3)[i],
                    ssid |-> "Home",
                    samples |-> <<windowA, windowB, windowC>>[i],
                    sampleWeights |->
                      Repeat(100, Len(<<windowA, windowB, windowC>>[i])),
                    latestRssi |->
                      <<windowA, windowB, windowC>>[i][
                        Len(<<windowA, windowB, windowC>>[i])],
                    lastSeen |-> lastSeen[i]]],
              now |-> 10,
              config |-> [evictAfterMs |-> 5, maxAps |-> maxAps,
                          minOverlap |-> 2,
                          edgeThreshold |-> DefaultEdgeThreshold],
              packet |-> Null]

\* The call returns.
SnapshotReturn ==
    /\ calc.fn = "buildSnapshot"
    /\ calc.pc = "call"
    /\ calc' = [calc EXCEPT
                  !.pc = "done",
                  !.packet = snapshotPacket(calc.store, calc.now,
                                            calc.config)]
    /\ UNCHANGED <<serverVars, analyze, pacing, client>>

\* ---------------------------------------------------------- function calls
\* One call of one function, its arguments drawn from the sets above.
InitCalc ==
    /\ ServerOff
    /\ analyze = NoAnalyze
    /\ pacing = NoPacing
    /\ client = NoClient
    /\ \/ EdgeCall
       \/ ClusterCall
       \/ PearsonCall
       \/ TopologyCall
       \/ StabilityCall
       \/ WeightCall
       \/ EmbedCall
       \/ StabilizeCall
       \/ SnapshotCall

NextCalc ==
    \/ EdgesReturn
    \/ ClustersReturn
    \/ PearsonReturn
    \/ TopologyReturn
    \/ StabilityReturn
    \/ WeightReturn
    \/ EmbedReturn
    \/ EmbedFeedsBack
    \/ StabilizeReturn
    \/ SnapshotReturn

SpecCalc == InitCalc /\ [][NextCalc]_vars

\* ------------------------------------------------ the client's snapshot stream
\* The closure of connectSnapshotStream: the socket by its readyState, the
\* reconnect timer, attempts and closedManually, the last status handed to
\* onStatus and what became of the last message.  History: the number of
\* WebSocket objects created (sockets), of setTimeout calls (timeouts), and
\* the delay and the random part of the last setTimeout call.
MaxSockets == 6

\* A delay that doubles without a cap.
uncappedDelay(attempts) == 400 * Power(2, attempts)

\* Math.min(10_000, 400 * 2 ** attempts).
reconnectDelay(attempts) == Min2(10000, 400 * Power(2, attempts))

\* connect().
connect(c) ==
    IF c.closedManually THEN c
    ELSE [c EXCEPT !.status = "connecting",
                   !.readyState = "CONNECTING",
                   !.sockets = @ + 1]

\* connectSnapshotStream has returned its handle: connect() has run once.
InitClient ==
    /\ ServerOff
    /\ analyze = NoAnalyze
    /\ pacing = NoPacing
    /\ calc = NoCalc
    /\ client = connect([pc |-> "running", readyState |-> "CLOSED",
                         reconnectTimer |-> "null", attempts |-> 0,
                         closedManually |-> FALSE, status |-> "",
                         delivered |-> "nothing", sockets |-> 0,
                         timeouts |-> 0, delay |-> 0, jitter |-> 0])

ClientAside == UNCHANGED <<serverVars, analyze, pacing, calc>>

\* The 'open' event.
SocketOpens ==
    /\ client.readyState = "CONNECTING"
    /\ client' = [client EXCEPT !.readyState = "OPEN", !.attempts = 0,
                                !.status = "connected"]
    /\ ClientAside

\* The 'message' event: a snapshot, another JSON value, or text that
\* JSON.parse rejects.
SocketMessage ==
    /\ client.readyState \in {"OPEN", "CLOSING"}
    /\ \E data \in {"snapshot", "hello", "malformed"} :
         client' = [client EXCEPT
                      !.delivered = IF data = "snapshot" THEN "snapshot"
                                    ELSE "ignored"]
    /\ ClientAside

\* The 'error' event: socket?.close(), which starts the closing of a socket
\* that is connecting or open.
SocketError ==
    /\ client.readyState \in {"CONNECTING", "OPEN", "CLOSING"}
    /\ client' = [client EXCEPT !.readyState = "CLOSING"]
    /\ ClientAside

\* The 'close' event of the socket, which fires once.
SocketCloses ==
    /\ client.readyState \in {"CONNECTING", "OPEN", "CLOSING"}
    /\ IF client.closedManually
         THEN client' = [client EXCEPT !.readyState = "CLOSED",
                                       !.status = "disconnected"]
         ELSE \E jitter \in {0, 249} :
                client' = [client EXCEPT
                             !.readyState = "CLOSED",
                             !.status = "reconnecting",
                             !.attempts = @ + 1,
                             !.delay = reconnectDelay(client.attempts + 1)
                                         + jitter,
                             !.jitter = jitter,
                             !.reconnectTimer = "pending",
                             !.timeouts = @ + 1]
    /\ ClientAside

\* The reconnect timer fires: connect().
ReconnectTimerFires ==
    /\ client.reconnectTimer = "pending"
    /\ client.sockets < MaxSockets
    /\ client' = connect([client EXCEPT !.reconnectTimer = "fired"])
    /\ ClientAside

\* close() of the handle: clearTimeout of a timer that was set, and
\* socket?.close().
HandleClose ==
    /\ client' = [client EXCEPT
                    !.closedManually = TRUE,
                    !.reconnectTimer = IF @ = "pending" THEN "cleared" ELSE @,
                    !.readyState = IF @ \in {"CONNECTING", "OPEN"}
                                     THEN "CLOSING" ELSE @]
    /\ ClientAside

NextClient ==
    \/ SocketOpens
    \/ SocketMessage
    \/ SocketError
    \/ SocketCloses
    \/ ReconnectTimerFires
    \/ HandleClose

SpecClient == InitClient /\ [][NextClient]_vars

\* ------------------------------------------------------------------ claims
\* A step in which the suspended scanTick resumes and runs to its end.
TickCompletes == tick.pending /\ ~tick'.pending

\* A step that broadcasts a snapshot: lastSnapshot is assigned exactly where
\* broadcastSnapshot is called, and no two broadcasts carry the same packet.
Broadcasts == appState'.lastSnapshot # appState.lastSnapshot

\* C1: live and replay are never both active: while replayState.active is
\* set, a live tick that completes (its scan was awaited when replay
\* started) ingests nothing into the entity store and neither broadcasts nor
\* stores a live snapshot.
C1_NoLiveTickDuringReplay ==
    [][(replayState.active /\ TickCompletes)
         => /\ apState' = apState
            /\ positionState' = positionState
            /\ appState'.lastSnapshot = appState.lastSnapshot]_vars

\* C2: the timestamps t of successively broadcast snapshots are strictly
\* increasing.
C2_TimestampsIncrease ==
    [][(Broadcasts /\ appState.lastSnapshot # Null)
         => appState'.lastSnapshot.t > appState.lastSnapshot.t]_vars

\* C3: in every reachable state every entity record has
\* samples.length = sampleWeights.length <= the configured windowSize.
C3_WindowBound ==
    \A i \in 1..Len(apState) :
       /\ Len(apState[i].samples) = Len(apState[i].sampleWeights)
       /\ Len(apState[i].samples) <= runtimeConfig.windowSize

\* C3 witness: after three ticks and an accepted PUT /config that set the
\* smallest window, a record ingested several times per batch fills it.
C3_Witness ==
    /\ runtimeConfig.windowSize = WindowSizeMin
    /\ appState.tickCount = 3
    /\ httpStatus = 200
    /\ \E i \in 1..Len(apState) :
          /\ Len(apState[i].samples) = WindowSizeMin
          /\ Len(apState[i].sampleWeights) = WindowSizeMin

\* C4: a configuration change never applies mid-tick: the ingestion and the
\* snapshot of a tick use the configuration in effect when the tick started.
C4_TickUsesStartConfig ==
    [][TickCompletes
         => /\ \E results \in ScanBatches :
                 apState' = applyScanResults(apState, positionState, results,
                                             tick.now, tick.config).apState
            /\ Broadcasts =>
                 /\ appState'.lastSnapshot.meta.windowSize = tick.config.windowSize
                 /\ appState'.lastSnapshot.meta.edgeThreshold = tick.config.edgeThreshold
                 /\ appState'.lastSnapshot.meta.minOverlap = tick.config.minOverlap
                 /\ appState'.lastSnapshot.meta.scanIntervalMs = tick.config.scanIntervalMs]_vars

\* A supplied field that is not a number, or a number outside [min, max].
\* A supplied field that is not a number, or lies outside its bounds (in
\* hundredths).
BadField(value, min, max) ==
    /\ value.kind # "absent"
    /\ \/ value.kind = "nan"
       \/ value.junk
       \/ value.h < min
       \/ value.h > max

BadBody(body) ==
    \/ BadField(body.scanIntervalMs, ScanIntervalMin * 100, ScanIntervalMax * 100)
    \/ BadField(body.windowSize, WindowSizeMin * 100, WindowSizeMax * 100)
    \/ BadField(body.edgeThreshold, EdgeThresholdMin, EdgeThresholdMax)
    \/ BadField(body.minOverlap, MinOverlapMin * 100, MinOverlapMax * 100)

\* C5: a PUT /config request in which any supplied field is non-numeric or
\* out of bounds is rejected with an error and leaves the runtime
\* configuration, the stored windows and the scan timer unchanged.
C5_BadRequestRejected ==
    [][\A body \in WindowBodies :
          (BadBody(body) /\ PutConfigBody(body))
            => /\ httpStatus' = 400
               /\ UNCHANGED <<runtimeConfig, apState, scanTimer>>]_vars

\* C6: an entity's position entry is removed only when the entity is evicted
\* from the entity store: an id that has an entry and stays in the store
\* keeps its entry.
C6_PositionKeptWhileTracked ==
    [][\A id \in positionState :
          id \in StoreIds(apState') => id \in positionState']_vars

\* C7: after every ingest with timestamp now the entity store holds no record
\* with now - lastSeen > evictAfterMs, and the position store holds no entry
\* for an id that ingest evicted.
C7_EvictionReleasesPositions ==
    lastIngest.count > 0 =>
       /\ \A i \in 1..Len(apState) :
             ~(lastIngest.now - apState[i].lastSeen > runtimeConfig.evictAfterMs)
       /\ lastIngest.evicted \cap positionState = {}
       /\ lastIngest.evicted \cap StoreIds(apState) = {}

\* C7 witness: an ingest evicted a record that had a position entry.
C7_Witness ==
    /\ lastIngest.count > 0
    /\ lastIngest.released # {}
    /\ lastIngest.released \cap positionState = {}

C9_ObservedButEmptySucceeds ==
    ( /\ analyze.pc \in {"settled", "exited"}
      /\ analyze.summary.apsObserved > 0
      /\ analyze.summary.apsTracked = 0 )
    => analyze.outcome = "returned"

\* The delay the claimed formula gives for a timestamp delta and a speed in
\* tenths.
ClaimedDelayMs(delta, speed) ==
    clamp(RoundDiv(delta * 10, Max2(speed, 1)), ReplayDelayMin, ReplayDelayMax)

\* C10: after emitting entry s[i] that has a successor s[i+1], whenever the
\* delta s[i+1].t - s[i].t is finite and positive the timer is set to
\* clamp(round(delta / max(speed, 0.1)), 40, 15000), so the fallback
\* interval is used only for a non-positive or non-finite delta.
C10_DelayFollowsDelta ==
    ( /\ pacing.pc = "replay"
      /\ pacing.index > 0
      /\ pacing.hasNext
      /\ IsFinite(pacing.currentT)
      /\ IsFinite(pacing.nextT)
      /\ pacing.nextT - pacing.currentT > 0 )
    => pacing.timerMs = ClaimedDelayMs(pacing.nextT - pacing.currentT,
                                       pacing.speed)

\* A step in which emitReplayTick emits an entry.
ReplayEmits == ReplayTimerFire /\ Broadcasts

\* C12: while a replay is active the entries of the loaded list are emitted
\* in order, each once per pass: an emission that follows n emissions of
\* the pass carries replayIndex n + 1 and the payload of entry n + 1 (n = 0
\* after a start and after the last entry of a looping replay), and
\* replayIndex never exceeds replayTotal.
C12_ReplayInFileOrder ==
    [][ReplayEmits =>
         LET emitted == IF replayState.index >= replayState.total
                        THEN 0 ELSE replayState.index
             snapshot == appState'.lastSnapshot
         IN  /\ snapshot.meta.replayIndex = emitted + 1
             /\ snapshot.meta.replayIndex <= replayState.total
             /\ snapshot.aps = replayState.snapshots[emitted + 1].aps
             /\ replayState'.index = emitted + 1]_vars

\* C12 witness: the second and last entry of the file has been emitted
\* after the first.
C12_Witness ==
    /\ replayState.active
    /\ replayState.index = 2
    /\ appState.lastSnapshot # Null
    /\ appState.lastSnapshot.meta.mode = "replay"
    /\ appState.lastSnapshot.meta.replayIndex = replayState.total
    /\ appState.lastSnapshot.aps = Recorded(1500, "b").aps

\* C13: a snapshot emitted by replay has meta.mode 'replay' and meta.replay
\* true, carries replayIndex, replayTotal, replaySpeed and replayPath, has
\* the aps, positions and edges of the recorded entry, and the emission
\* leaves the stored entries as they were.
C13_ReplayKeepsPayload ==
    [][ReplayEmits =>
         LET snapshot == appState'.lastSnapshot
             recorded == replayState.snapshots[replayState'.index]
         IN  /\ snapshot.meta.mode = "replay"
             /\ snapshot.meta.replay = TRUE
             /\ snapshot.meta.replayIndex = replayState'.index
             /\ snapshot.meta.replayTotal = replayState.total
             /\ snapshot.meta.replaySpeed = replayState.speed
             /\ snapshot.meta.replayPath = replayState.path
             /\ snapshot.aps = recorded.aps
             /\ snapshot.positions = recorded.positions
             /\ snapshot.edges = recorded.edges
             /\ replayState'.snapshots = replayState.snapshots]_vars

\* C13 witness: the entry recorded at t = 1500 has been emitted with a new
\* timestamp and replay meta, and is still stored as recorded.
C13_Witness ==
    /\ replayState.active
    /\ appState.lastSnapshot # Null
    /\ appState.lastSnapshot.meta.mode = "replay"
    /\ appState.lastSnapshot.edges = Recorded(1500, "b").edges
    /\ appState.lastSnapshot.t # 1500
    /\ replayState.snapshots[2] = Recorded(1500, "b")

\* C14: startReplay on a file without a line of type 'snapshot' fails and
\* leaves replayState (a replay in progress and its timer included) and
\* appState as they were; of a file with valid entries the unparseable and
\* non-snapshot lines are skipped and the others loaded in file order.
C14_EmptyReplayFileRejected ==
    [][\A speed \in ReplaySpeeds, loop \in BOOLEAN :
         /\ ReplayStartWith("none.ndjson", speed, loop) =>
              /\ httpStatus' = 500
              /\ UNCHANGED <<replayState, appState, scanTimer>>
         /\ ReplayStartWith("two.ndjson", speed, loop) =>
              /\ httpStatus' = 200
              /\ replayState'.active
              /\ replayState'.total = 2
              /\ replayState'.snapshots =
                   <<Recorded(1000, "a"), Recorded(1500, "b")>>]_vars

\* C14 witness: a start that failed while a replay was in progress, which
\* is still running.
C14_Witness ==
    /\ httpStatus = 500
    /\ replayState.active
    /\ replayState.index >= 1
    /\ replayState.timer # NoTimer
    /\ appState.mode = "replay"

\* C15: at most one scan-and-ingest is in progress: while a tick awaits its
\* scan scanInFlight is set, and a scan timer that fires then (the timer a
\* PUT /config set included) starts no scan and leaves the suspended tick,
\* the entity store, the position store and appState as they are.
C15_NoOverlappingTick ==
    [][/\ tick.pending => appState.scanInFlight
       /\ (tick.pending /\ ScanTimerFire) =>
            /\ UNCHANGED <<tick, apState, positionState, appState, lastIngest>>
            /\ scanTimer' = TimerSet]_vars

\* C15 witness: a scan timer is due while a tick awaits its scan.
C15_Witness ==
    /\ tick.pending
    /\ appState.scanInFlight
    /\ Due(scanTimer)
    /\ clock > tick.now

\* The position entries a completing tick's eviction pass leaves.
PositionsOfTracked == { id \in positionState : id \in StoreIds(apState') }

\* C18 as claimed: a live snapshot is broadcast on exactly the completed
\* ticks whose count is a multiple of snapshotEveryTicks, and every other
\* tick leaves lastSnapshot and the position store unchanged.
C18_QuietTicksChangeNothing ==
    [][TickCompletes =>
         LET due == appState'.tickCount % runtimeConfig.snapshotEveryTicks = 0
         IN  /\ Broadcasts <=> due
             /\ ~due => /\ appState'.lastSnapshot = appState.lastSnapshot
                        /\ positionState' = positionState]_vars

\* C18 as amended: a live snapshot is broadcast on exactly the completed
\* ticks whose count is a multiple of snapshotEveryTicks; every other tick
\* leaves lastSnapshot unchanged and removes from the position store only
\* the entries of the entities its eviction pass removed.
C18_SnapshotOnDueTicksOnly ==
    [][TickCompletes =>
         LET due == appState'.tickCount % runtimeConfig.snapshotEveryTicks = 0
         IN  /\ appState'.tickCount = appState.tickCount + 1
             /\ Broadcasts <=> due
             /\ due => /\ appState'.lastSnapshot.t = tick.now
                       /\ appState'.lastSnapshot.meta.mode = "live"
             /\ ~due => /\ appState'.lastSnapshot = appState.lastSnapshot
                        /\ positionState' = PositionsOfTracked]_vars

\* C18 witness: a tick whose count is not a multiple of snapshotEveryTicks
\* has completed after a snapshot was broadcast, and its eviction pass
\* removed an entity that had a position entry.
C18_Witness ==
    /\ ~tick.pending
    /\ appState.tickCount % runtimeConfig.snapshotEveryTicks # 0
    /\ appState.lastSnapshot # Null
    /\ lastIngest.count > 0
    /\ lastIngest.released # {}
    /\ lastIngest.now > appState.lastSnapshot.t

\* Window new holds exactly the w most recent entries of window old, in
\* the same order.
IsRecentTail(new, old, w) ==
    /\ Len(new) = w
    /\ \A k \in 1..w : new[k] = old[Len(old) - w + k]

\* C20: when an accepted PUT /config sets windowSize to w, then in the
\* state right after the request every record that held more than w
\* samples holds exactly its w most recent samples and its w most recent
\* weights, in the same order, and every other record is unchanged.
C20_ShrinkTrimsAtOnce ==
    [][\A body \in WindowBodies :
         ( /\ PutConfigBody(body)
           /\ httpStatus' = 200
           /\ body.windowSize.kind # "absent" )
         => LET w == runtimeConfig'.windowSize
            IN  /\ Len(apState') = Len(apState)
                /\ \A i \in 1..Len(apState) :
                     IF Len(apState[i].samples) > w
                     THEN /\ apState'[i].bssid = apState[i].bssid
                          /\ apState'[i].lastSeen = apState[i].lastSeen
                          /\ IsRecentTail(apState'[i].samples,
                                          apState[i].samples, w)
                          /\ IsRecentTail(apState'[i].sampleWeights,
                                          apState[i].sampleWeights, w)
                     ELSE apState'[i] = apState[i]]_vars

\* C20 witness: the last accepted PUT /config lowered windowSize below the
\* length of a record's window, and that record now holds windowSize
\* samples.
C20_Witness ==
    /\ httpStatus = 200
    /\ lastTrim.count = 1
    /\ lastTrim.windowSize = runtimeConfig.windowSize
    /\ lastTrim.windowSize < LiveWindowSize
    /\ \E i \in 1..Len(apState) :
         /\ apState[i].bssid \in lastTrim.cut
         /\ Len(apState[i].samples) = lastTrim.windowSize
         /\ apState[i].samples[1] # apState[i].samples[lastTrim.windowSize]

\* The name the last named observation of id in a batch carries, or
\* HIDDEN_SSID when no observation of id in the batch carries a name.
RECURSIVE LastNamed(_, _)
LastNamed(results, id) ==
    IF results = <<>> THEN HIDDEN_SSID
    ELSE LET ap == results[Len(results)]
         IN  IF ap.bssid = id /\ ap.ssid # HIDDEN_SSID THEN ap.ssid
             ELSE LastNamed(SubSeq(results, 1, Len(results) - 1), id)

\* C19: a record that holds a name other than '<hidden>' never holds
\* '<hidden>' afterwards, whatever is observed; and after a tick has
\* ingested a batch, the label of every record the batch named is the last
\* name the batch gave it, while a record the batch did not name keeps its
\* label.
C19_LabelNeverRegresses ==
    [][/\ \A i \in 1..Len(apState), j \in 1..Len(apState') :
            ( /\ apState[i].bssid = apState'[j].bssid
              /\ apState[i].ssid # HIDDEN_SSID )
            => apState'[j].ssid # HIDDEN_SSID
       /\ \A results \in LabelBatches :
            ScanComplete({results})
            => \A j \in 1..Len(apState') :
                 LET id == apState'[j].bssid
                     named == LastNamed(results, id)
                 IN  IF named # HIDDEN_SSID THEN apState'[j].ssid = named
                     ELSE IF HasRecord(apState, id)
                          THEN apState'[j].ssid
                               = apState[IndexOf(apState, id)].ssid
                          ELSE apState'[j].ssid = HIDDEN_SSID]_vars

\* C19 witness: a record that was first named "Home" and then "Guest" was
\* last observed without a name and still holds "Guest".
C19_Witness ==
    \E i \in 1..Len(apState) :
      /\ apState[i].ssid = "Guest"
      /\ apState[i].latestRssi \in {HiddenA.rssi, SentinelA.rssi}
      /\ \E k \in 1..Len(apState[i].ssidHistory) :
           apState[i].ssidHistory[k] = "Home"

\* C17: a live tick all of whose scanners time out or fail ingests nothing:
\* every record left in the store is a record of the store before, as it
\* was; the records that are gone are exactly the stale ones; the tick
\* counter advances by one; and when the new count is due, a live snapshot
\* stamped with the tick's time is stored and sent, otherwise none.
C17_FailedScanIsEmptyTick ==
    [][\A airport \in { e \in AirportExits : e.error },
         coreWlan \in { e \in CoreWlanExits : e.error },
         profiler \in { e \in ProfilerExits : e.error } :
         ScanComplete({scanWifiNetworks(airport, coreWlan, profiler, TRUE)})
         => /\ \A j \in 1..Len(apState') :
                 \E i \in 1..Len(apState) : apState'[j] = apState[i]
            /\ \A i \in 1..Len(apState) :
                 HasRecord(apState', apState[i].bssid)
                 <=> ~(tick.now - apState[i].lastSeen
                        > runtimeConfig.evictAfterMs)
            /\ appState'.tickCount = appState.tickCount + 1
            /\ ~appState'.scanInFlight
            /\ IF appState'.tickCount % runtimeConfig.snapshotEveryTicks = 0
               THEN /\ appState'.lastSnapshot # Null
                    /\ appState'.lastSnapshot.t = tick.now
                    /\ appState'.lastSnapshot.meta.mode = "live"
               ELSE appState'.lastSnapshot = appState.lastSnapshot]_vars

\* C17 witness: the last tick ingested nothing, evicted a record and
\* emitted its snapshot, which shows no network.
C17_Witness ==
    /\ ~tick.pending
    /\ lastIngest.count > 0
    /\ lastIngest.evicted # {}
    /\ apState = <<>>
    /\ appState.tickCount > 1
    /\ appState.lastSnapshot # Null
    /\ appState.lastSnapshot.t = lastIngest.now
    /\ appState.lastSnapshot.aps = <<>>

\* C16: a tick that throws, in the scan, in the ingest or in the snapshot,
\* ends with scanInFlight reset and with the next tick scheduled; and with
\* neither shutdown nor replay, however many ticks throw, live ticks start
\* and finish again and again for ever.
C16_BadTickNeverStopsLoop ==
    /\ [][ScanFails(FaultBatches)
            => /\ ~appState'.scanInFlight
               /\ ~tick'.pending
               /\ scanTimer' = TimerSet]_vars
    /\ []<>(tick.pending /\ appState.scanInFlight)
    /\ []<>(~tick.pending /\ ~appState.scanInFlight)

\* C16 witness: with a snapshot every second tick, a tick threw after it had
\* ingested a record (a record is stored, yet no tick is counted and no
\* snapshot was built), and a later tick is scanning.
C16_Witness ==
    /\ runtimeConfig.snapshotEveryTicks = 2
    /\ appState.tickCount = 0
    /\ appState.lastSnapshot = Null
    /\ apState # <<>>
    /\ tick.pending
    /\ appState.scanInFlight
    /\ tick.now > apState[1].lastSeen

\* Replay has emitted its last entry and has not ended yet.
LastEntryEmitted ==
    /\ replayState.active
    /\ replayState.index >= replayState.total

\* meta.mode and meta.replayIndex of the last packet sent.
LastSentMode ==
    IF appState.lastSnapshot = Null THEN "none"
    ELSE appState.lastSnapshot.meta.mode

LastSentReplayIndex ==
    IF LastSentMode = "replay" THEN appState.lastSnapshot.meta.replayIndex
    ELSE 0

\* Replay is over and the last packet sent is still a replayed one.
ReplayJustEnded ==
    /\ ~replayState.active
    /\ appState.mode = "live"
    /\ LastSentMode = "replay"

\* C11: once replay has emitted its last entry, the replay timer's next
\* firing, with loop set, leaves replay active and emits the first entry of
\* the file, and without loop makes replay inactive and the mode 'live'
\* without emitting; that firing comes unless a replay is started anew;
\* and once a replay has ended this way, with no shutdown, a live tick
\* scans and a live snapshot is emitted unless a replay is started first.
C11_ReplayEndLoopsOrResumesLive ==
    /\ [][(LastEntryEmitted /\ ReplayTimerFire)
            => IF replayState.loop
               THEN /\ replayState'.active
                    /\ appState'.mode = "replay"
                    /\ Broadcasts
                    /\ appState'.lastSnapshot.meta.replayIndex = 1
                    /\ appState'.lastSnapshot.aps
                         = replayState.snapshots[1].aps
               ELSE /\ ~replayState'.active
                    /\ appState'.mode = "live"
                    /\ ~Broadcasts]_vars
    /\ (LastEntryEmitted /\ replayState.loop)
         ~> ( \/ /\ replayState.active
                 /\ replayState.index = 1
                 /\ LastSentReplayIndex = 1
              \/ replayState.active /\ replayState.index = 0 )
    /\ (LastEntryEmitted /\ ~replayState.loop)
         ~> ( \/ ~replayState.active /\ appState.mode = "live"
              \/ replayState.active /\ replayState.index < replayState.total )
    /\ ReplayJustEnded
         ~> ( LastSentMode = "live" \/ replayState.active )

\* C11 witness: a replay without loop has ended, the mode is 'live' again,
\* and the last packet was built by a live tick that started after the
\* replay's last entry had been emitted.
C11_Witness ==
    /\ ~replayState.active
    /\ appState.mode = "live"
    /\ appState.lastSnapshot # Null
    /\ appState.lastSnapshot.meta.mode = "live"
    /\ ~appState.lastSnapshot.meta.replay
    /\ httpStatus = 200

\* The position of id in ids, 0 when it is not in the list.
PositionOf(ids, id) ==
    IF \E k \in 1..Len(ids) : ids[k] = id
    THEN CHOOSE k \in 1..Len(ids) : ids[k] = id
    ELSE 0

\* C21: every edge buildTopCorrelationEdges returns has corr strictly
\* greater than minCorr, joins two different ids of the id list, and its
\* corr is the matrix entry of that pair of ids.
C21_EdgesAboveThreshold ==
    (calc.fn = "buildTopCorrelationEdges" /\ calc.pc = "done")
    => \A k \in 1..Len(calc.edges) :
         LET edge == calc.edges[k]
             i == PositionOf(calc.ids, edge.a)
             j == PositionOf(calc.ids, edge.b)
         IN  /\ edge.corr > calc.minCorr
             /\ i # 0
             /\ j # 0
             /\ edge.a # edge.b
             /\ edge.corr = calc.corrMatrix[i][j]

\* C21 witness: a call returned two edges although the matrix of its three
\* ids also holds a pair at the threshold and no more.
C21_Witness ==
    /\ calc.fn = "buildTopCorrelationEdges"
    /\ calc.pc = "done"
    /\ Len(calc.ids) = 3
    /\ Len(calc.edges) = 2
    /\ \E i, j \in 1..3 : i # j /\ calc.corrMatrix[i][j] = calc.minCorr

\* The edges of a detector call that the detector does not skip.
QualifyingEdges ==
    { k \in 1..Len(calc.edges) : calc.edges[k].corr >= calc.minCorr }

\* The ids within n qualifying edges of the ids of a set.
RECURSIVE Within(_, _)
Within(set, n) ==
    IF n = 0 THEN set
    ELSE Within(set
                \cup { calc.edges[k].b :
                         k \in { k \in QualifyingEdges :
                                   calc.edges[k].a \in set } }
                \cup { calc.edges[k].a :
                         k \in { k \in QualifyingEdges :
                                   calc.edges[k].b \in set } },
                n - 1)

\* C22: buildClusters gives clusterId 0 and clusterSize 1 to every id that is
\* in no qualifying edge; two ids of one connected component of two or more
\* ids get the same non-zero clusterId and the number of ids of the
\* component as clusterSize; ids of different components never share a
\* non-zero clusterId.
C22_ClustersAreComponents ==
    (calc.fn = "buildClusters" /\ calc.pc = "done")
    => LET idSet == { calc.ids[k] : k \in 1..Len(calc.ids) }
           id == calc.clusters.clusterById
           size == calc.clusters.clusterSizeById
           inEdges == { calc.edges[k].a : k \in QualifyingEdges }
                      \cup { calc.edges[k].b : k \in QualifyingEdges }
       IN  /\ DOMAIN id = idSet
           /\ DOMAIN size = idSet
           /\ \A x \in idSet \ inEdges : id[x] = 0 /\ size[x] = 1
           /\ \A x \in idSet :
                LET component == Within({x}, Len(calc.ids))
                IN  /\ Cardinality(component) >= 2
                       => /\ id[x] # 0
                          /\ size[x] = Cardinality(component)
                          /\ \A y \in component : id[y] = id[x]
                    /\ \A y \in idSet \ component :
                         id[x] = 0 \/ id[x] # id[y]

\* C22 witness: a call returned two clusters of two ids each, the list
\* holding an edge below the threshold as well.
C22_Witness ==
    /\ calc.fn = "buildClusters"
    /\ calc.pc = "done"
    /\ Len(calc.ids) = 4
    /\ calc.clusters.summary = <<2, 2>>
    /\ \E k \in 1..Len(calc.edges) : calc.edges[k].corr < calc.minCorr

\* The ids within n edges of corr above the threshold of the ids of a set.
RECURSIVE WithinAbove(_, _)
WithinAbove(set, n) ==
    IF n = 0 THEN set
    ELSE LET above == { k \in 1..Len(calc.edges) :
                          calc.edges[k].corr > calc.minCorr }
         IN  WithinAbove(set
                         \cup { calc.edges[k].b :
                                  k \in { k \in above :
                                            calc.edges[k].a \in set } }
                         \cup { calc.edges[k].a :
                                  k \in { k \in above :
                                            calc.edges[k].b \in set } },
                         n - 1)

C29_StrongestPrefix ==
    (calc.fn = "buildTopCorrelationEdges" /\ calc.pc = "done")
    => LET edges == calc.edges
           merged == calc.merged
           kept == { edges[k] : k \in 1..Len(edges) }
           candidates == { merged[k] : k \in 1..Len(merged) }
       IN  /\ \A k \in 1..(Len(edges) - 1) : edges[k].corr >= edges[k + 1].corr
           /\ Len(edges) <= calc.maxEdges
           /\ Len(edges) = Min2(Len(merged), calc.maxEdges)
           /\ Cardinality(kept) = Len(edges)
           /\ kept \subseteq candidates
           /\ \A out \in candidates \ kept :
                \A in \in kept : out.corr <= in.corr

\* C29 witness: a call returned two edges of different corr, cut from three
\* merged candidates that were found in another order.
C29_Witness ==
    /\ calc.fn = "buildTopCorrelationEdges"
    /\ calc.pc = "done"
    /\ calc.maxEdges = 2
    /\ Len(calc.merged) = 3
    /\ Len(calc.edges) = 2
    /\ calc.edges[1].corr > calc.edges[2].corr
    /\ calc.merged[2].corr < calc.merged[3].corr

\* The aligned pairs of a correlation call whose merged weight
\* sqrt(wx * wy), taken over the normalized weights, is finite and positive.
WeightedPairs ==
    LET overlap == Min2(Len(calc.xs), Len(calc.ys))
        weightOf(weights, i) ==
            LET at == Len(weights.items) - overlap + i
            IN  IF ~weights.isArray \/ weights.items = <<>> \/ at < 1 THEN 100
                ELSE IF weights.items[at] = NaN THEN 100
                ELSE IF weights.items[at] < 0 THEN 0
                ELSE IF weights.items[at] > 100 THEN 100
                ELSE weights.items[at]
    IN  { i \in 1..overlap :
            weightOf(calc.weightsX, i) * weightOf(calc.weightsY, i) > 0 }

\* C24: weightedPearsonCorrelation returns exactly 0 when the shorter of the
\* two series has fewer than minOverlap samples, and when fewer than
\* minOverlap aligned pairs have a finite positive merged weight; it returns
\* a number in every case.
C24_ZeroBelowMinOverlap ==
    (calc.fn = "weightedPearsonCorrelation" /\ calc.pc = "done")
    => /\ calc.corr \in -100..100
       /\ Min2(Len(calc.xs), Len(calc.ys)) < calc.minOverlap => calc.corr = 0
       /\ Cardinality(WeightedPairs) < calc.minOverlap => calc.corr = 0

\* C24 witness: a call with enough samples in both series, not correlated
\* to zero on the pairs of positive weight, returned 0 because too few of
\* the pairs have a positive weight.
C24_Witness ==
    /\ calc.fn = "weightedPearsonCorrelation"
    /\ calc.pc = "done"
    /\ calc.corr = 0
    /\ Min2(Len(calc.xs), Len(calc.ys)) >= calc.minOverlap
    /\ Cardinality(WeightedPairs) < calc.minOverlap
    /\ weightedPearsonCorrelation(calc.xs, calc.ys, calc.weightsX,
                                  calc.weightsY, 1) # 0

\* C23: in a snapshot of three entities, two of them with identical windows
\* that are not constant and hold at least minOverlap samples, the third
\* with fewer than minOverlap samples, the edge list is the one edge between
\* the two, the two are in one cluster of size 2 with a non-zero clusterId,
\* and the third has clusterId 0.
C23_TwinsFormTheOnlyCluster ==
    (calc.fn = "snapshotTopology" /\ calc.pc = "done")
    => \A i, j, k \in 1..3 :
         LET A == calc.activeRecords[i]
             B == calc.activeRecords[j]
             C == calc.activeRecords[k]
             aps == calc.topology.aps
         IN  (/\ i < j
              /\ k \notin {i, j}
              /\ A.samples = B.samples
              /\ \E n \in 1..Len(A.samples) : A.samples[n] # A.samples[1]
              /\ Len(A.samples) >= calc.minOverlap
              /\ Len(C.samples) < calc.minOverlap)
             => /\ Len(calc.topology.edges) = 1
                /\ calc.topology.edges[1].a = A.bssid
                /\ calc.topology.edges[1].b = B.bssid
                /\ calc.topology.edges[1].corr > calc.edgeThreshold
                /\ aps[i].clusterId # 0
                /\ aps[i].clusterId = aps[j].clusterId
                /\ aps[i].clusterSize = 2
                /\ aps[j].clusterSize = 2
                /\ aps[k].clusterId = 0

\* C23 witness: the scenario with windows of three samples, the twin of
\* another kind of reading, and the third entity one sample short.
C23_Witness ==
    /\ calc.fn = "snapshotTopology"
    /\ calc.pc = "done"
    /\ calc.minOverlap = 3
    /\ calc.activeRecords[1].samples = <<-40, -70, -40>>
    /\ calc.activeRecords[2].samples = <<-40, -70, -40>>
    /\ calc.activeRecords[2].sampleWeights = <<45, 45, 45>>
    /\ calc.activeRecords[3].samples = <<-70, -40>>
    /\ Len(calc.topology.edges) = 1

\* C25: a snapshot built by a live tick holds at most maxAps entities; they
\* are records of the store that are not stale at the snapshot's time, as
\* many of them as the cap lets in, and no such record left out has a
\* latestRssi strictly greater than that of an entity of the snapshot.
C25_StrongestWithinCap ==
    [][(TickCompletes /\ SnapshotDue(appState.tickCount + 1, runtimeConfig))
         => LET snapshot == appState'.lastSnapshot
                fresh == { i \in 1..Len(apState') :
                             snapshot.t - apState'[i].lastSeen
                               <= runtimeConfig.evictAfterMs }
                shown == { i \in fresh :
                             \E k \in 1..Len(snapshot.aps) :
                               /\ snapshot.aps[k].bssid = apState'[i].bssid
                               /\ snapshot.aps[k].rssi = apState'[i].latestRssi }
            IN  /\ Len(snapshot.aps) <= runtimeConfig.maxAps
                /\ Len(snapshot.aps)
                     = Min2(Cardinality(fresh), runtimeConfig.maxAps)
                /\ Cardinality(shown) = Len(snapshot.aps)
                /\ \A out \in fresh \ shown :
                     \A in \in shown :
                       apState'[out].latestRssi <= apState'[in].latestRssi]_vars

\* C25 witness: the last live snapshot is full and shows the second of two
\* records of the store, neither of them stale.
C25_Witness ==
    /\ appState.lastSnapshot # Null
    /\ Len(apState) = 2
    /\ lastIngest.now = clock
    /\ lastIngest.evicted = {}
    /\ IF appState.lastSnapshot = Null THEN FALSE
       ELSE /\ appState.lastSnapshot.meta.mode = "live"
            /\ appState.lastSnapshot.t = lastIngest.now
            /\ Len(appState.lastSnapshot.aps) = runtimeConfig.maxAps
            /\ appState.lastSnapshot.aps[1].bssid = apState[2].bssid

C27_WritesOnlyWhileRecording ==
    /\ recordState.enabled <=> recordLog.phase = "started"
    /\ recordLog.lastWrite # NoWrite
         => /\ recordLog.lastWrite.enabled
            /\ recordLog.lastWrite.phase = "started"

\* A line was written, recording was stopped, and a later live snapshot
\* was broadcast without being written.
C27_Witness ==
    /\ recordLog.lastWrite # NoWrite
    /\ recordLog.phase = "stopped"
    /\ ~recordState.enabled
    /\ appState.lastSnapshot # Null
    /\ appState.lastSnapshot.meta.mode = "live"
    /\ appState.lastSnapshot.t > recordLog.lastWrite.t

C31_SmoothingTowardsTarget ==
    calc.fn = "embedPositions" /\ calc.pc = "done"
      => \A i \in 1..Len(calc.ids) :
           LET id == calc.ids[i]
               den == calc.smoothing.den
               num == calc.smoothing.num
           IN  /\ id \notin DOMAIN calc.previousPositions
                    => calc.result[id] = calc.target[i]
               /\ id \in DOMAIN calc.previousPositions
                    => \A axis \in 1..3 :
                         LET prev == calc.previousPositions[id][axis]
                         IN  den * calc.result[id][axis]
                               = den * prev + (calc.target[i][axis] - prev) * num
               /\ id \in DOMAIN calc.first
                    => \A axis \in 1..3 :
                         (calc.target[i][axis] - calc.result[id][axis])
                             * Power(den, calc.calls)
                           = (calc.target[i][axis] - calc.first[id][axis])
                               * Power(den - num, calc.calls)

\* The third call in a row has returned, for one id that started away from
\* its target and is still away from it, and one that had no position.
C31_Witness ==
    /\ calc.fn = "embedPositions"
    /\ calc.pc = "done"
    /\ calc.calls = 3
    /\ Len(calc.ids) = 2
    /\ "a" \in DOMAIN calc.first
    /\ "b" \notin DOMAIN calc.first
    /\ calc.first["a"] # calc.target[1]
    /\ calc.result["a"] # calc.target[1]
    /\ calc.result["b"] = calc.target[2]

\* The dot product, on one axis, of previous and given coordinates over the
\* ids that have a previous position.
RECURSIVE SharedDot(_, _, _, _)
SharedDot(shared, coords, axis, previous) ==
    IF shared = {} THEN 0
    ELSE LET i == CHOOSE k \in shared : TRUE
         IN  previous[i][axis] * coords[i][axis]
               + SharedDot(shared \ {i}, coords, axis, previous)

\* C32: with at least 2 ids of the frame having a previous position, after
\* stabilization the dot product of previous and new coordinates over those
\* ids is non-negative on every axis, an axis being negated for all
\* entities exactly when that dot product was negative; with fewer than 2
\* such ids no axis is changed.
C32_AxesAgreeWithPrevious ==
    calc.fn = "stabilizeAxisSign" /\ calc.pc = "done"
      => LET shared == { i \in 1..Len(calc.ids) :
                           calc.ids[i] \in DOMAIN calc.previousPositions }
             previous == [i \in shared |-> calc.previousPositions[calc.ids[i]]]
         IN  IF Cardinality(shared) >= 2
               THEN \A axis \in 1..3 :
                      /\ SharedDot(shared, calc.stabilized, axis, previous) >= 0
                      /\ \A i \in 1..Len(calc.coords) :
                           calc.stabilized[i][axis]
                             = IF SharedDot(shared, calc.coords, axis, previous) < 0
                                 THEN -calc.coords[i][axis]
                                 ELSE calc.coords[i][axis]
               ELSE calc.stabilized = calc.coords

\* Two of three ids had a previous position, one axis was negated for all
\* three and another was left as it was.
C32_Witness ==
    /\ calc.fn = "stabilizeAxisSign"
    /\ calc.pc = "done"
    /\ Len(calc.ids) = 3
    /\ Cardinality(DOMAIN calc.previousPositions) = 2
    /\ \E axis \in 1..3 :
         \A i \in 1..3 : /\ calc.coords[i][axis] # 0
                         /\ calc.stabilized[i][axis] = -calc.coords[i][axis]
    /\ \E axis \in 1..3 :
         \A i \in 1..3 : /\ calc.coords[i][axis] # 0
                         /\ calc.stabilized[i][axis] = calc.coords[i][axis]

\* C33: the analyze loop ends for every positive duration when each scan
\* returns: the sleep after a scan is max(0, min(scanIntervalMs - elapsed,
\* remaining budget)) and so never ends after the deadline, no scan starts
\* at or after the deadline, and exactly one final snapshot with its
\* summary is built, after the loop has ended.
C33_AnalyzeLoopEnds ==
    /\ [][analyze.pc = "scanning" /\ analyze'.pc \in {"loop", "sleeping"}
            => LET elapsedMs == analyze.now - analyze.scanStartedAt
                   remainingMs == analyze.endAt - analyze.now
                   slept == IF analyze'.pc = "sleeping"
                              THEN analyze'.wakeAt - analyze.now ELSE 0
               IN  /\ slept = Max2(0, Min2(AnalyzeScanIntervalMs - elapsedMs,
                                           remainingMs))
                   /\ analyze.now + slept <= analyze.endAt]_vars
    /\ [](analyze.pc = "scanning" => analyze.scanStartedAt < analyze.endAt)
    /\ [](analyze.built = IF analyze.pc \in {"settled", "exited"} THEN 1 ELSE 0)
    /\ <>(analyze.pc = "exited")

\* A run of more than one scan has ended: after one scan it slept for what
\* was left of the budget, less than the scan interval.
C33_Witness ==
    /\ analyze.pc = "exited"
    /\ analyze.built = 1
    /\ analyze.scanCount >= 2
    /\ analyze.wakeAt = analyze.endAt
    /\ analyze.wakeAt - analyze.scanStartedAt < AnalyzeScanIntervalMs

\* The entity store after a whole batch: every observation ingested, then
\* the eviction pass.
WholeBatch(results) ==
    DropStale(IngestAll(apState, results, tick.now, runtimeConfig.windowSize),
              tick.now, runtimeConfig.evictAfterMs)

\* Every step ingests a whole batch of a completing tick or none: the only
\* other change of the entity store is the trim of an accepted PUT /config.
BatchesAreWhole ==
    /\ TickCompletes => \E results \in ScanBatches : apState' = WholeBatch(results)
    /\ ~TickCompletes
         => \/ apState' = apState
            \/ apState' = trimWindowForAllRecords(apState,
                                                  runtimeConfig'.windowSize)

\* C34 as claimed: between any two events each scan batch is ingested
\* entirely, eviction pass included, or not at all, and the position store
\* is that of the previous completed snapshot or that of the new one.
C34_TickIsAllOrNothing ==
    [][/\ BatchesAreWhole
       /\ \/ positionState' = positionState
          \/ /\ TickCompletes
             /\ Broadcasts
             /\ positionState' = appState'.lastSnapshot.positions]_vars

\* C34 as amended: between any two events each scan batch is ingested
\* entirely, eviction pass included, or not at all, and the position store
\* is that of the last completed snapshot, less the entries of the entities
\* that ticks without a snapshot have evicted since.
C34_TickIsWholeUpToEviction ==
    [][/\ BatchesAreWhole
       /\ IF TickCompletes
            THEN IF SnapshotDue(appState.tickCount + 1, runtimeConfig)
                   THEN /\ Broadcasts
                        /\ positionState' = appState'.lastSnapshot.positions
                   ELSE /\ ~Broadcasts
                        /\ positionState' = PositionsOfTracked
            ELSE positionState' = positionState]_vars

\* After a snapshot, a tick without one evicted a positioned entity, and
\* the shutdown found the position store short of that entry.
C34_Witness ==
    /\ shuttingDown
    /\ ~tick.pending
    /\ lastIngest.released # {}
    /\ appState.lastSnapshot # Null
    /\ appState.lastSnapshot.meta.mode = "live"
    /\ positionState # appState.lastSnapshot.positions
    /\ positionState \subseteq appState.lastSnapshot.positions

\* C35: every live snapshot is consistent with itself: meta.activeApCount is
\* the length of aps, the keys of positions are the ids of aps, both ends of
\* every edge are ids of aps, no entity of aps was last seen longer ago than
\* evictAfterMs before t, and meta.clusterCount is the length of
\* meta.clusterSizes and the number of distinct non-zero clusterId values.
C35_SnapshotIsConsistent ==
    (calc.fn = "buildSnapshot" /\ calc.pc = "done") =>
      LET packet == calc.packet
          apIds == { packet.aps[i].bssid : i \in 1..Len(packet.aps) }
          clusterIds == { packet.aps[i].clusterId :
                            i \in 1..Len(packet.aps) } \ {0}
      IN  /\ packet.meta.activeApCount = Len(packet.aps)
          /\ Cardinality(apIds) = Len(packet.aps)
          /\ packet.positions = apIds
          /\ \A k \in 1..Len(packet.edges) :
               /\ packet.edges[k].a \in apIds
               /\ packet.edges[k].b \in apIds
          /\ \A i \in 1..Len(packet.aps) :
               ~(packet.t - packet.aps[i].lastSeen
                   > calc.config.evictAfterMs)
          /\ packet.meta.clusterCount = Len(packet.meta.clusterSizes)
          /\ packet.meta.clusterCount = Cardinality(clusterIds)

\* A snapshot of a store with a stale record, with an edge, a cluster and an
\* entity outside every cluster.
C35_Witness ==
    /\ calc.fn = "buildSnapshot"
    /\ calc.pc = "done"
    /\ Len(calc.packet.aps) = 2
    /\ \E i \in 1..3 : calc.now - calc.store[i].lastSeen
                         > calc.config.evictAfterMs
    /\ Len(calc.packet.edges) > 0
    /\ calc.packet.meta.clusterCount = 1

\* C36: between any two handlers, appState.mode is "replay" exactly when
\* replayState.active is true and "live" otherwise, whatever replay starts,
\* restarts, failed starts, stops, ends of a sequence and shutdown came
\* before.
C36_ModeFollowsReplay ==
    /\ appState.mode \in {"live", "replay"}
    /\ (appState.mode = "replay") <=> replayState.active

\* A replay started after shutdown() had stopped an earlier one, still
\* active after a failed start, the last request answered.
C36_Witness ==
    /\ replayState.active
    /\ appState.mode = "replay"
    /\ httpStatus = 500
    /\ shuttingDown

\* C37: at most one recording stream is open at any time: whatever the
\* order of the POST /record/start and POST /record/stop requests and of the
\* completions of the starts, every stream that was opened is the current
\* recordState.stream or has been ended.
C37_OneStreamOpen ==
    /\ recordLog.unended = 0
    /\ recordLog.unended
         + (IF recordState.stream = "null" THEN 0 ELSE 1) <= 1

\* C38: replay output is never recorded: a replay tick that emits a
\* snapshot writes no line and leaves recordState.count as it was, even
\* while recording is enabled, and while recording is enabled
\* recordState.count is the number of live snapshots written since the start
\* that set recordState.startedAt.
C38_ReplayIsNotRecorded ==
    /\ [][(Broadcasts /\ appState'.lastSnapshot.meta.mode = "replay")
            => UNCHANGED <<recordState, recordLog>>]_vars
    /\ [](recordState.enabled => recordState.count = recordLog.appended)

\* Recording is enabled with a line written, and the snapshot broadcast
\* last is a later one of a replay.
C38_Witness ==
    /\ recordState.enabled
    /\ recordState.stream = "writable"
    /\ recordState.count > 0
    /\ replayState.active
    /\ appState.lastSnapshot # Null
    /\ appState.lastSnapshot.meta.mode = "replay"
    /\ appState.lastSnapshot.t > recordLog.lastWrite.t

\* C39: once close() of the handle has been called no WebSocket is created
\* any more, whatever events follow; before that, every 'close' event of a
\* socket schedules one reconnect, no other step schedules one and none is
\* pending at that time, the delay without its random part being
\* min(10000, 400 * 2^attempts), at most 10000 ms; every 'open' event sets
\* attempts to 0.
C39_ReconnectsUntilClosed ==
    /\ [][client.closedManually
            => /\ client'.sockets = client.sockets
               /\ client'.timeouts = client.timeouts]_vars
    /\ [][(/\ ~client.closedManually
           /\ client.readyState # "CLOSED"
           /\ client'.readyState = "CLOSED")
            => /\ client.reconnectTimer # "pending"
               /\ client'.reconnectTimer = "pending"
               /\ client'.timeouts = client.timeouts + 1
               /\ client'.delay - client'.jitter
                    = Min2(10000, 400 * Power(2, client'.attempts))
               /\ client'.delay - client'.jitter <= 10000]_vars
    /\ [][client'.timeouts # client.timeouts
            => (client.readyState # "CLOSED"
                  /\ client'.readyState = "CLOSED")]_vars
    /\ [][(client.readyState = "CONNECTING" /\ client'.readyState = "OPEN")
            => client'.attempts = 0]_vars

\* close() was called while a reconnect was pending after five sockets in a
\* row had closed, an earlier socket having opened: the delay had reached
\* its cap.
C39_Witness ==
    /\ client.closedManually
    /\ client.reconnectTimer = "cleared"
    /\ client.readyState = "CLOSED"
    /\ client.attempts >= 5
    /\ client.sockets > client.attempts
    /\ client.delay - client.jitter = 10000

====
